---------------------------- MODULE Spec2Model ----------------------------
(***************************************************************************)
(* Model of the odds-extraction and arbitrage core of SureBetProject.      *)
(*                                                                         *)
(* Numbers.  The Python code computes in double precision.  The model      *)
(* computes with exact rationals [n, d] (reduced, d > 0); decimal odds     *)
(* such as 2.10 are carried in hundredths (210) and converted by Odd.      *)
(* round(x, 2) is modelled as round-half-even on the exact value.          *)
(*                                                                         *)
(* Text.  A line of a page is a record [k, v, b]: k is the shape the       *)
(* regular expressions of the parsers distinguish, v the decimal value of  *)
(* its numeric prefix in hundredths, b the bookmaker suffix.               *)
(***************************************************************************)
EXTENDS Integers, Sequences, FiniteSets, TLC

VARIABLES pc, out, BEST_AGGREGATE, runs,
          cycle_count, successful, failed, script_idx, attempts,
          scan, multi, cache, tasks

\* the locals of main() in main_runner.py; script_idx is the position of the
\* for loop in SCRIPTS_TO_RUN, attempts the run_script calls of the cycle
runner == <<cycle_count, successful, failed, script_idx, attempts>>

\* the programs that are followed step by step: the outer loop of a parser
\* (scan), main() of run_multi.py (multi), and the process of api/app.py
\* (its cache dictionary and the coroutines of its event loop)
stepwise == <<scan, multi, cache, tasks>>

vars == <<pc, out, BEST_AGGREGATE, runs, runner, stepwise>>

-----------------------------------------------------------------------------
(* Exact rational arithmetic standing for Python floats.                   *)

Abs(x) == IF x < 0 THEN -x ELSE x

RECURSIVE GCD(_, _)
GCD(a, b) == IF b = 0 THEN a ELSE GCD(b, a % b)

\* the reduced fraction n/d, d > 0
Q(n, d) == LET g == GCD(Abs(n), d) IN [n |-> n \div g, d |-> d \div g]

QInt(i) == [n |-> i, d |-> 1]

QAdd(x, y) ==
    LET g == GCD(x.d, y.d)
    IN  Q(x.n * (y.d \div g) + y.n * (x.d \div g), (x.d \div g) * y.d)

QNeg(x) == [n |-> -x.n, d |-> x.d]

QSub(x, y) == QAdd(x, QNeg(y))

QMul(x, y) ==
    LET g1 == GCD(Abs(x.n), y.d)
        g2 == GCD(Abs(y.n), x.d)
    IN  [n |-> (x.n \div g1) * (y.n \div g2), d |-> (x.d \div g2) * (y.d \div g1)]

\* 1/x for x > 0
QInv(x) == [n |-> x.d, d |-> x.n]

QDiv(x, y) == QMul(x, QInv(y))

QLt(x, y) ==
    LET g == GCD(x.d, y.d)
    IN  x.n * (y.d \div g) < y.n * (x.d \div g)

QLe(x, y) == ~QLt(y, x)

QFloor(x) == x.n \div x.d

\* nearest integer, ties to the even one (Python 3 round)
RoundHalfEven(x) ==
    LET f == QFloor(x)
        r == QSub(x, QInt(f))
        twice == QMul(QInt(2), r)
    IN  IF QLt(twice, QInt(1)) THEN f
        ELSE IF QLt(QInt(1), twice) THEN f + 1
        ELSE IF f % 2 = 0 THEN f ELSE f + 1

\* round(x, 2): the hundredths by long division, ties to the even hundredth
Round2(x) ==
    LET f == x.n \div x.d
        r0 == x.n % x.d
        d1 == (r0 * 10) \div x.d
        r1 == (r0 * 10) % x.d
        d2 == (r1 * 10) \div x.d
        r2 == (r1 * 10) % x.d
        k == f * 100 + d1 * 10 + d2
    IN  IF 2 * r2 < x.d THEN Q(k, 100)
        ELSE IF 2 * r2 > x.d THEN Q(k + 1, 100)
        ELSE IF k % 2 = 0 THEN Q(k, 100) ELSE Q(k + 1, 100)

\* the value of a decimal literal carried in hundredths: float("2.10") = 210/100
OddsScale == 100

Odd(h) == Q(h, OddsScale)

RECURSIVE SumInv(_)
\* sum(1/o for o in odds), odds a sequence of positive hundredths
SumInv(os) ==
    IF os = <<>> THEN QInt(0)
    ELSE QAdd(QInv(Odd(Head(os))), SumInv(Tail(os)))

\* the margin formula where the return on capital is meant
RoiPct_margin(inv_sum) == QMul(QSub(QInt(1), inv_sum), QInt(100))

\* (1/inv_sum - 1) * 100: the return on the capital staked, in percent
RoiPct(inv_sum) == QMul(QSub(QInv(inv_sum), QInt(1)), QInt(100))

\* (1 - inv_sum) * 100: the margin, in percent
MarginPct(inv_sum) == QMul(QSub(QInt(1), inv_sum), QInt(100))

RECURSIVE SumSeq(_)
SumSeq(s) == IF s = <<>> THEN 0 ELSE Head(s) + SumSeq(Tail(s))

\* the first components of a list of tuples
Firsts(ts) == [i \in 1..Len(ts) |-> ts[i][1]]

-----------------------------------------------------------------------------
(* enhanced_football_analyzer.py: stake allocator with unit rounding.      *)

DEFAULT_TOTAL_STAKE == 100

\* the six-tuple compute_stakes returns
StakeResult(stakes, pabs, eff, ppct, tabs, tpct) ==
    [stakes |-> stakes, profit_abs_actual |-> pabs, effective_total |-> eff,
     profit_pct_actual |-> ppct, profit_abs_theoretical |-> tabs,
     profit_pct_theoretical |-> tpct]

\* stake * odd of one [stake, o, b] entry, in hundredths
ReturnOf(r) == r[1] * r[2]

RECURSIVE InsertByReturn(_, _)
\* insert r after every entry whose return is <= its own (stable order)
InsertByReturn(sorted, r) ==
    IF sorted = <<>> THEN <<r>>
    ELSE IF ReturnOf(Head(sorted)) <= ReturnOf(r)
         THEN <<Head(sorted)>> \o InsertByReturn(Tail(sorted), r)
         ELSE <<r>> \o sorted

RECURSIVE SortByReturn(_)
\* rounded.sort(key=lambda x: x[0] * x[1]): a stable sort
SortByReturn(rs) ==
    IF rs = <<>> THEN <<>>
    ELSE InsertByReturn(SortByReturn(SubSeq(rs, 1, Len(rs) - 1)), rs[Len(rs)])

RECURSIVE DistributeWhilePositive(_, _, _)
\* the loop with the test "while diff > 0": a last unit is added although
\* less than one unit is left
DistributeWhilePositive(rounded, diff, rm) ==
    IF diff > 0 /\ rounded # <<>>
    THEN LET s == SortByReturn(rounded)
         IN  DistributeWhilePositive([s EXCEPT ![1] = <<s[1][1] + rm, s[1][2], s[1][3]>>],
                                     diff - rm, rm)
    ELSE rounded

RECURSIVE Distribute(_, _, _)
\* while diff >= round_multiple and rounded: sort, add a unit to the lowest return
Distribute(rounded, diff, rm) ==
    IF diff >= rm /\ rounded # <<>>
    THEN LET s == SortByReturn(rounded)
         IN  Distribute([s EXCEPT ![1] = <<s[1][1] + rm, s[1][2], s[1][3]>>], diff - rm, rm)
    ELSE rounded

\* the first element, whatever the others are
MinOf_first(s) == s[1]

RECURSIVE MinOf(_)
MinOf(s) ==
    IF Len(s) = 1 THEN s[1]
    ELSE LET m == MinOf(Tail(s)) IN IF Head(s) <= m THEN Head(s) ELSE m

\* the stake sizes without the division by inv_sum
UnroundedUnnormalised(valid, total_stake) ==
    [i \in 1..Len(valid) |-> QMul(QInt(total_stake), QInv(Odd(valid[i][1])))]

\* theoretical stake of each valid outcome: total_stake * (1/o) / inv_sum
Unrounded(valid, total_stake) ==
    LET inv_sum == SumInv(Firsts(valid))
    IN  [i \in 1..Len(valid) |->
            QDiv(QMul(QInt(total_stake), QInv(Odd(valid[i][1]))), inv_sum)]

\* int(stake), at least one unit: the floor to a whole number instead of to
\* a multiple of round_multiple
FloorStakeToInteger(stake, rm) ==
    LET floored == QFloor(stake)
    IN  IF floored <= 0 THEN rm ELSE floored

\* int(stake // round_multiple * round_multiple), at least one unit
FloorStake(stake, rm) ==
    LET floored == QFloor(QDiv(stake, QInt(rm))) * rm
    IN  IF floored <= 0 THEN rm ELSE floored

compute_stakes(odds, total_stake, round_multiple) ==
    LET valid == SelectSeq(odds, LAMBDA p : p[1] > 0)
    IN  IF Len(valid) < 2
        THEN StakeResult(<<>>, QInt(0), 0, QInt(0), QInt(0), QInt(0))
        ELSE
        LET inv_sum == SumInv(Firsts(valid))
        IN  IF QLe(QInt(1), inv_sum)
            THEN StakeResult(<<>>, QInt(0), 0, QInt(0), QInt(0), QInt(0))
            ELSE
            LET rm == IF round_multiple < 1 THEN 1 ELSE round_multiple
                unrounded == Unrounded(valid, total_stake)
                theoretical_return == QDiv(QInt(total_stake), inv_sum)
                theoretical_profit_abs == QSub(theoretical_return, QInt(total_stake))
                theoretical_profit_pct == RoiPct(inv_sum)
                floored == [i \in 1..Len(valid) |->
                               <<FloorStake(unrounded[i], rm), valid[i][1], valid[i][2]>>]
                diff == total_stake - SumSeq(Firsts(floored))
                rounded == Distribute(floored, diff, rm)
                effective_total == SumSeq(Firsts(rounded))
                min_return ==
                    Q(MinOf([i \in 1..Len(rounded) |-> ReturnOf(rounded[i])]), OddsScale)
                profit_abs_actual == QSub(min_return, QInt(effective_total))
                profit_pct_actual ==
                    IF effective_total > 0
                    THEN QMul(QDiv(profit_abs_actual, QInt(effective_total)), QInt(100))
                    ELSE QInt(0)
            IN  IF QLe(profit_abs_actual, QInt(0))
                THEN StakeResult(<<>>, QInt(0), effective_total, QInt(0),
                                 Round2(theoretical_profit_abs),
                                 Round2(theoretical_profit_pct))
                ELSE StakeResult(rounded, Round2(profit_abs_actual), effective_total,
                                 Round2(profit_pct_actual),
                                 Round2(theoretical_profit_abs),
                                 Round2(theoretical_profit_pct))

\* choose_total_stake: the explicit total when given (0 stands for None),
\* else the midpoint rounded to the nearest 100 and clamped to the range
DEFAULT_STAKE_MIN == 10000

DEFAULT_STAKE_MAX == 15000

choose_total_stake(min_total, max_total, explicit) ==
    IF explicit # 0 THEN explicit
    ELSE LET mx == IF max_total < min_total THEN min_total ELSE max_total
             mid == (min_total + mx) \div 2
             mid100 == RoundHalfEven(Q(mid, 100)) * 100
             lo == IF mid100 < mx THEN mid100 ELSE mx
         IN  IF min_total > lo THEN min_total ELSE lo

\* an optional number: Python's None or a float
None == [some |-> FALSE, v |-> QInt(0)]

Some(x) == [some |-> TRUE, v |-> x]

\* bounds of the filter in check_surebet: 0.5 <= o <= 69, in hundredths
CHECK_MIN_ODDS == 50

CHECK_MAX_ODDS == 6900

\* check_surebet of enhanced_football_analyzer.py: margin % or None
check_surebet(odds) ==
    LET clean == SelectSeq(Firsts(odds),
                           LAMBDA o : CHECK_MIN_ODDS <= o /\ o <= CHECK_MAX_ODDS)
    IN  IF Len(clean) < 2 THEN None
        ELSE LET inv_sum == SumInv(clean)
             IN  IF QLt(inv_sum, QInt(1))
                 THEN Some(Round2(MarginPct(inv_sum)))
                 ELSE None

-----------------------------------------------------------------------------
(* enhanced_nfl_analyzer.py: two-way allocator.                            *)

RECURSIVE DistributeTwoWay(_, _, _, _, _, _)
\* while diff >= round_multiple: a unit to s1 when r[0] <= r[1], else to s2
DistributeTwoWay(s1, s2, o1, o2, total_stake, rm) ==
    IF total_stake - (s1 + s2) >= rm
    THEN IF s1 * o1 <= s2 * o2
         THEN DistributeTwoWay(s1 + rm, s2, o1, o2, total_stake, rm)
         ELSE DistributeTwoWay(s1, s2 + rm, o1, o2, total_stake, rm)
    ELSE <<s1, s2>>

compute_stakes_two_way(odds_tuple, total_stake, round_multiple) ==
    LET clean == SelectSeq(odds_tuple, LAMBDA p : p[1] > 0)
    IN  IF Len(clean) # 2
        THEN StakeResult(<<>>, QInt(0), 0, QInt(0), QInt(0), QInt(0))
        ELSE
        LET o1 == clean[1][1]
            o2 == clean[2][1]
            inv_sum == QAdd(QInv(Odd(o1)), QInv(Odd(o2)))
        IN  IF QLe(QInt(1), inv_sum)
            THEN StakeResult(<<>>, QInt(0), 0, QInt(0), QInt(0), QInt(0))
            ELSE
            LET rm == IF round_multiple < 1 THEN 1 ELSE round_multiple
                s1_exact == QDiv(QMul(QInt(total_stake), QInv(Odd(o1))), inv_sum)
                s2_exact == QDiv(QMul(QInt(total_stake), QInv(Odd(o2))), inv_sum)
                s == DistributeTwoWay(FloorStake(s1_exact, rm), FloorStake(s2_exact, rm),
                                      o1, o2, total_stake, rm)
                eff_total == s[1] + s[2]
                min_ret == Q(MinOf(<<s[1] * o1, s[2] * o2>>), OddsScale)
                profit_abs_actual == QSub(min_ret, QInt(eff_total))
                theo_abs == QSub(QDiv(QInt(total_stake), inv_sum), QInt(total_stake))
                theo_pct == RoiPct(inv_sum)
            IN  IF QLe(profit_abs_actual, QInt(0))
                \* the failure tuple carries eff_total in the second position
                THEN StakeResult(<<>>, QInt(eff_total), 0, QInt(0),
                                 Round2(theo_abs), Round2(theo_pct))
                ELSE StakeResult(<<<<s[1], o1, clean[1][2]>>, <<s[2], o2, clean[2][2]>>>>,
                                 Round2(profit_abs_actual), eff_total,
                                 Round2(QMul(QDiv(profit_abs_actual, QInt(eff_total)),
                                             QInt(100))),
                                 Round2(theo_abs), Round2(theo_pct))

-----------------------------------------------------------------------------
(* enhanced_hockey_analyzer.py: the football allocator with its own        *)
(* failure tuple.                                                          *)

HockeyResult(odds_list, r) ==
    IF r.stakes # <<>> \/ Len(SelectSeq(odds_list, LAMBDA p : p[1] > 0)) < 2
       \/ QLe(QInt(1), SumInv(Firsts(SelectSeq(odds_list, LAMBDA p : p[1] > 0))))
    THEN r
    ELSE StakeResult(<<>>, QInt(r.effective_total), 0, QInt(0),
                     r.profit_abs_theoretical, r.profit_pct_theoretical)

hockey_compute_stakes(odds_list, total_stake, round_multiple) ==
    HockeyResult(odds_list, compute_stakes(odds_list, total_stake, round_multiple))

-----------------------------------------------------------------------------
(* Allocators that round each stake to two decimals.                       *)

\* enhanced_tennis_analyzer.py (basketball and handball alike): a bare list
\* when there is no surebet, else the pair (stakes, profit)
tennis_compute_stakes(odds) ==
    LET valid == SelectSeq(odds, LAMBDA p : p[1] > 0)
    IN  IF Len(valid) < 2 THEN [shape |-> "list", stakes |-> <<>>]
        ELSE
        LET inv == SumInv(Firsts(valid))
        IN  IF QLe(QInt(1), inv) THEN [shape |-> "list", stakes |-> <<>>]
            ELSE
            LET stakes == [i \in 1..Len(valid) |->
                              <<Round2(QDiv(QMul(QInt(DEFAULT_TOTAL_STAKE),
                                                 QInv(Odd(valid[i][1]))), inv)),
                                valid[i][1], valid[i][2]>>]
                profit == Round2(QSub(QMul(stakes[1][1], Odd(odds[1][1])),
                                      QInt(DEFAULT_TOTAL_STAKE)))
            IN  [shape |-> "pair", stakes |-> stakes, profit |-> profit]

\* tracker.py compute_stakes(u, o, total): (round(su,2), round(so,2), round(profit,2))
tracker_compute_stakes(u, o, total) ==
    LET inv_sum == QAdd(QInv(Odd(u)), QInv(Odd(o)))
        su == QDiv(QMul(QInt(total), QInv(Odd(u))), inv_sum)
        so == QDiv(QMul(QInt(total), QInv(Odd(o))), inv_sum)
        ret == QMul(su, Odd(u))
        profit == QSub(ret, QInt(total))
    IN  <<Round2(su), Round2(so), Round2(profit)>>

-----------------------------------------------------------------------------
(* enhanced_football_analyzer.py: analyze_surebets.                        *)
(* A match is [teams, odds]; odds maps a label to <<hundredths, book>>.    *)

EXCLUDED_BOOKMAKERS == {}

RECURSIVE FlatMap(_, _)
\* the concatenation of f(x) over the list xs
FlatMap(f(_), xs) ==
    IF xs = <<>> THEN <<>> ELSE f(Head(xs)) \o FlatMap(f, Tail(xs))

\* the surebet record appended for a group whose margin is profit and whose
\* stake plan is r; nothing when the plan is empty or below min_profit
SurebetRecord(match, labels, type, min_profit, profit, r) ==
    IF r.stakes = <<>> THEN <<>>
    ELSE IF ~QLe(min_profit, r.profit_pct_actual) THEN <<>>
    ELSE << [match |-> match.teams,
             type |-> type,
             profit |-> profit,
             odds |-> [l \in {labels[i] : i \in 1..Len(labels)} |-> match.odds[l]],
             stakes |-> r.stakes,
             abs_profit |-> r.profit_abs_actual,
             profit_actual |-> r.profit_pct_actual,
             abs_profit_theoretical |-> r.profit_abs_theoretical,
             profit_theoretical |-> r.profit_pct_theoretical,
             total_stake |-> r.effective_total,
             category |-> IF \E i \in 1..Len(labels) :
                                 match.odds[labels[i]][2] \in EXCLUDED_BOOKMAKERS
                          THEN "online" ELSE "local"] >>

\* "if profit is not None and profit >= min_profit and profit > 0"
GatedSurebet(match, group, labels, type, min_profit, total_target, stake_round, profit) ==
    IF ~(profit.some /\ QLe(min_profit, profit.v) /\ QLt(QInt(0), profit.v))
    THEN <<>>
    ELSE SurebetRecord(match, labels, type, min_profit, profit.v,
                       compute_stakes(group, total_target, stake_round))

\* one market block of analyze_surebets: the surebet record of the group, if emitted
AnalyzeGroup(match, labels, type, min_profit, total_target, stake_round) ==
    IF ~(\A i \in 1..Len(labels) : labels[i] \in DOMAIN match.odds) THEN <<>>
    ELSE GatedSurebet(match, [i \in 1..Len(labels) |-> match.odds[labels[i]]],
                      labels, type, min_profit, total_target, stake_round,
                      check_surebet([i \in 1..Len(labels) |-> match.odds[labels[i]]]))

\* the body of "for match in matches": the surebets of one match
AnalyzeMatch(match, min_profit, total_target, stake_round) ==
    IF Cardinality(DOMAIN match.odds) < 2 THEN <<>>
    ELSE AnalyzeGroup(match, <<"Home", "Draw", "Away">>, "1X2",
                      min_profit, total_target, stake_round)
         \o AnalyzeGroup(match, <<"0-2", "3+">>, "0-2 / 3+",
                         min_profit, total_target, stake_round)
         \o AnalyzeGroup(match, <<"Winner1", "Winner2">>, "Winner",
                         min_profit, total_target, stake_round)

RECURSIVE AnalyzeMatches(_, _, _, _)
AnalyzeMatches(matches, min_profit, total_target, stake_round) ==
    IF matches = <<>> THEN <<>>
    ELSE AnalyzeMatch(Head(matches), min_profit, total_target, stake_round)
         \o AnalyzeMatches(Tail(matches), min_profit, total_target, stake_round)

\* stake_min, stake_max, stake_total: 0 stands for None
analyze_surebets(matches, min_profit, stake_min, stake_max, stake_total, stake_round) ==
    AnalyzeMatches(matches, min_profit,
                   choose_total_stake(
                       IF stake_min # 0 THEN stake_min ELSE DEFAULT_STAKE_MIN,
                       IF stake_max # 0 THEN stake_max ELSE DEFAULT_STAKE_MAX,
                       stake_total),
                   stake_round)

-----------------------------------------------------------------------------
(* arbitrage_football.py: detect_surebets.  Here a match's odds map        *)
(* (match['odds']['TopTiket']) maps a label to a bare number.              *)

\* one market block of detect_surebets
DetectGroup(match, labels, type) ==
    IF ~(\A i \in 1..Len(labels) : labels[i] \in DOMAIN match.odds) THEN <<>>
    ELSE
    LET os == [i \in 1..Len(labels) |-> match.odds[labels[i]]]
        inv_sum == SumInv(os)
    IN  IF ~QLt(inv_sum, QInt(1)) THEN <<>>
        ELSE
        LET margin_pct == MarginPct(inv_sum)
            roi_pct == RoiPct(inv_sum)
            total == QInt(100)
        IN  << [match |-> match,
                type |-> type,
                margin_pct |-> Round2(margin_pct),
                roi_pct |-> Round2(roi_pct),
                stakes |-> [i \in 1..Len(labels) |->
                               Round2(QMul(QDiv(QInv(Odd(os[i])), inv_sum), total))],
                odds |-> os] >>

detect_surebets(matches) ==
    LET OfMatch(match) ==
            DetectGroup(match, <<"1", "X", "2">>, "1X2")
            \o DetectGroup(match, <<"0-2", "3+">>, "O/U")
    IN  FlatMap(OfMatch, matches)

-----------------------------------------------------------------------------
(* arbitrage_nfl.py: two-way detection.                                    *)

\* VALID_ODDS_RANGE = (0.5, 69.0) in hundredths
NFL_MIN_ODDS == 50

NFL_MAX_ODDS == 6900

\* (is_surebet, margin_pct, roi_pct)
is_surebet_two_way(o1, o2) ==
    LET inv == QAdd(QInv(Odd(o1)), QInv(Odd(o2)))
    IN  IF QLt(inv, QInt(1))
        THEN <<TRUE, Round2(MarginPct(inv)), Round2(RoiPct(inv))>>
        ELSE <<FALSE, QInt(0), QInt(0)>>

allocate_stakes(o1, o2, total) ==
    LET inv == QAdd(QInv(Odd(o1)), QInv(Odd(o2)))
    IN  [Home |-> Round2(QMul(QDiv(QInv(Odd(o1)), inv), QInt(total))),
         Away |-> Round2(QMul(QDiv(QInv(Odd(o2)), inv), QInt(total)))]

RECURSIVE InsertByRoiDesc(_, _)
\* sorted(..., key=roi_pct, reverse=True) keeps the order of equal keys
InsertByRoiDesc(sorted, r) ==
    IF sorted = <<>> THEN <<r>>
    ELSE IF QLe(r.roi_pct, Head(sorted).roi_pct)
         THEN <<Head(sorted)>> \o InsertByRoiDesc(Tail(sorted), r)
         ELSE <<r>> \o sorted

RECURSIVE SortByRoiDesc(_)
SortByRoiDesc(rs) ==
    IF rs = <<>> THEN <<>>
    ELSE InsertByRoiDesc(SortByRoiDesc(SubSeq(rs, 1, Len(rs) - 1)), rs[Len(rs)])

detect_two_way_surebets(matches, min_profit, total_stake) ==
    LET OfMatch(m) ==
            IF "Home" \notin DOMAIN m.odds \/ "Away" \notin DOMAIN m.odds THEN <<>>
            ELSE
            LET o1 == m.odds["Home"][1]
                o2 == m.odds["Away"][1]
            IN  IF ~(NFL_MIN_ODDS <= o1 /\ o1 <= NFL_MAX_ODDS
                     /\ NFL_MIN_ODDS <= o2 /\ o2 <= NFL_MAX_ODDS) THEN <<>>
                ELSE
                LET t == is_surebet_two_way(o1, o2)
                IN  IF ~t[1] \/ QLt(t[3], min_profit) THEN <<>>
                    ELSE << [match |-> m.teams,
                             type |-> "1/2",
                             margin_pct |-> t[2],
                             roi_pct |-> t[3],
                             odds |-> [l \in {"Home", "Away"} |-> m.odds[l]],
                             stakes |-> allocate_stakes(o1, o2, total_stake)] >>
    IN  SortByRoiDesc(FlatMap(OfMatch, matches))

-----------------------------------------------------------------------------
(* Lines of a scraped page.  A line is [k, v, b]: the kind of its text,    *)
(* the number it starts with (in hundredths) and the text after that       *)
(* number (a bookmaker) or the whole text (a name).  Each kind stands for  *)
(* one shape of text; the predicates below say which of the parsers'       *)
(* regular expressions that text matches.                                  *)

Line(k, v, b) == [k |-> k, v |-> v, b |-> b]

\* "AUTO-SNAPSHOT RAW FALLBACK"
HeaderLine == Line("header", 0, "AUTO-SNAPSHOT RAW FALLBACK")

\* "19:30"
TimeLine == Line("time", 1900, ":30")

\* "sre, 19:30"
WeekdayLine == Line("weekday", 0, "sre, 19:30")

\* an upper-case name such as "FC ALFA"
TeamLine(name) == Line("team", 0, name)

\* "Fudbal"
NavLine == Line("nav", 0, "Fudbal")

\* "-----"
SepLine == Line("sep", 0, "-----")

\* "+152"
PlusLine == Line("plus", 15200, "")

\* a number with two decimals and a bookmaker, such as "2.10Bet"
OddsLine(v, b) == Line("odds", v, b)

\* a number with two decimals, such as "2.10"
NumLine(v) == Line("num", v, "")

\* one digit, such as "3"
IntLine(n) == Line("int", 100 * n, "")

\* a number with the one decimal 5, such as "20.5" or "4.5"
HalfLine(v) == Line("half", v, "")

Digit(n) == <<"0", "1", "2", "3", "4", "5", "6", "7", "8", "9">>[n + 1]

\* the outcome of a regular expression with a number group and a text group
NoMatch == [some |-> FALSE, val |-> 0, book |-> ""]

Matched(val, book) == [some |-> TRUE, val |-> val, book |-> book]

\* r':\d{2}$' (dt_re, TIME_RE, time_re), searched in the line
dt_re(l) == l.k \in {"time", "weekday"}

\* r'^-+$'
sep_re(l) == l.k \in {"sep"}

\* line.startswith('+')
StartsWithPlus(l) == l.k = "plus"

\* r'^\d+(?:\.\d+)?' without the closing $: the text starts with a number
pure_num_re_prefix(l) == l.k \in {"num", "int", "half", "odds"}

\* r'^\d+(?:\.\d+)?$' (pure_num_re, num_only_re, ODD_NUM_RE, num_re)
pure_num_re(l) == l.k \in {"num", "int", "half"}

\* r'^(\d+(?:\.\d+)?)([A-Za-z0-9].*)$': the second group needs one character,
\* so on a bare number with decimals the last digit becomes the bookmaker
odd_re(l) ==
    CASE l.k = "odds" -> Matched(l.v, l.b)
      [] l.k = "num" -> Matched((l.v \div 10) * 10, Digit(l.v % 10))
      [] l.k = "half" /\ l.v >= 1000 ->
            Matched((l.v \div 1000) * 100, Digit((l.v \div 100) % 10) \o ".5")
      [] OTHER -> NoMatch

\* r'^(\d+(?:\.\d+)?)([A-Za-z][A-Za-z0-9].*)$'
num_bookie_re(l) == IF l.k = "odds" THEN Matched(l.v, l.b) ELSE NoMatch

\* the odds map under construction and, for each label, the index of the
\* line its value was read from
EmptyAcc == [odds |-> <<>>, src |-> <<>>]

Store(acc, label, quote, j) ==
    [odds |-> (label :> quote) @@ acc.odds, src |-> (label :> j) @@ acc.src]

\* a match record; teams holds the two participant lines, first..last are
\* the indices of the lines the parser read for it
MatchRecord(team1, team2, acc, first, last) ==
    [teams |-> <<team1, team2>>, odds |-> acc.odds, src |-> acc.src,
     first |-> first, last |-> last]

-----------------------------------------------------------------------------
(* enhanced_football_analyzer.py: the AUTO-SNAPSHOT parsers.               *)

order == <<"Home", "Draw", "Away", "0-2", "3+", "GG", "GG3+">>

\* 0.5 <= val <= 700, in hundredths
SNAPSHOT_MIN_ODDS == 50

SNAPSHOT_MAX_ODDS == 70000

SnapshotRange(val) == SNAPSHOT_MIN_ODDS <= val /\ val <= SNAPSHOT_MAX_ODDS

RECURSIVE BlockEnd(_, _)
\* while i < n and not lines[i].startswith('+') and not dt_re.search(lines[i])
BlockEnd(lines, i) ==
    IF i <= Len(lines) /\ ~StartsWithPlus(lines[i]) /\ ~dt_re(lines[i])
    THEN BlockEnd(lines, i + 1)
    ELSE i

RECURSIVE SnapshotMarketsEverySeparator(_, _, _, _, _, _)
\* the loop over block_lines with a separator that advances the market
\* whether or not a value was captured
SnapshotMarketsEverySeparator(lines, j, stop, market_idx, have_in_market, acc) ==
    IF j >= stop \/ market_idx > Len(order) THEN acc
    ELSE
    LET bl == lines[j]
        m == odd_re(bl)
    IN  IF sep_re(bl)
        THEN SnapshotMarketsEverySeparator(lines, j + 1, stop, market_idx + 1, FALSE, acc)
        ELSE IF m.some /\ ~have_in_market /\ SnapshotRange(m.val)
        THEN SnapshotMarketsEverySeparator(lines, j + 1, stop, market_idx, TRUE,
                             Store(acc, order[market_idx], <<m.val, m.book>>, j))
        ELSE IF ~have_in_market /\ pure_num_re(bl) /\ SnapshotRange(bl.v)
        THEN SnapshotMarketsEverySeparator(lines, j + 1, stop, market_idx, TRUE,
                             Store(acc, order[market_idx], <<bl.v, "AUTO">>, j))
        ELSE SnapshotMarketsEverySeparator(lines, j + 1, stop, market_idx,
                                           have_in_market, acc)

RECURSIVE SnapshotMarkets(_, _, _, _, _, _)
\* for bl in block_lines: the lines j..stop-1 of the block
SnapshotMarkets(lines, j, stop, market_idx, have_in_market, acc) ==
    IF j >= stop \/ market_idx > Len(order) THEN acc
    ELSE
    LET bl == lines[j]
        m == odd_re(bl)
    IN  IF sep_re(bl)
        THEN SnapshotMarkets(lines, j + 1, stop,
                             IF have_in_market THEN market_idx + 1 ELSE market_idx,
                             FALSE, acc)
        ELSE IF m.some /\ ~have_in_market /\ SnapshotRange(m.val)
        THEN SnapshotMarkets(lines, j + 1, stop, market_idx, TRUE,
                             Store(acc, order[market_idx], <<m.val, m.book>>, j))
        ELSE IF ~have_in_market /\ pure_num_re(bl) /\ SnapshotRange(bl.v)
        THEN SnapshotMarkets(lines, j + 1, stop, market_idx, TRUE,
                             Store(acc, order[market_idx], <<bl.v, "AUTO">>, j))
        ELSE SnapshotMarkets(lines, j + 1, stop, market_idx, have_in_market, acc)

\* what a read of lines[j] with j >= n does: the call ends with IndexError
\* and returns no list
IndexError == [raised |-> "IndexError"]

\* "if dt_re.search(line) and i+2 < n", with the test of n dropped
SnapshotHeaderUnguarded(lines, i) == dt_re(lines[i])

\* "if dt_re.search(line) and i+2 < n": a header with two lines after it
SnapshotHeader(lines, i) == dt_re(lines[i]) /\ i + 2 <= Len(lines)

RECURSIVE SnapshotScan(_, _)
SnapshotScan(lines, i) ==
    IF i > Len(lines) THEN <<>>
    ELSE IF SnapshotHeader(lines, i)
    THEN IF i + 2 > Len(lines) THEN <<IndexError>> ELSE
         LET stop == BlockEnd(lines, i + 3)
             next == IF stop <= Len(lines) /\ StartsWithPlus(lines[stop])
                     THEN stop + 1 ELSE stop
             acc == SnapshotMarkets(lines, i + 3, stop, 1, FALSE, EmptyAcc)
         IN  (IF Cardinality(DOMAIN acc.odds) >= 3
              THEN <<MatchRecord(lines[i + 1], lines[i + 2], acc, i, next - 1)>>
              ELSE <<>>)
             \o SnapshotScan(lines, next)
    ELSE SnapshotScan(lines, i + 1)

_parse_auto_snapshot_lines(lines) == SnapshotScan(lines, 1)

RECURSIVE PlainOdds(_, _, _, _)
\* while i < n and idx < len(order): the scan index it ends at and the odds read
PlainOdds(lines, i, idx, acc) ==
    IF i > Len(lines) \/ idx > Len(order) THEN [i |-> i, acc |-> acc]
    ELSE
    LET l == lines[i]
        mb == num_bookie_re(l)
    IN  IF StartsWithPlus(l) THEN [i |-> i + 1, acc |-> acc]
        ELSE IF dt_re(l) THEN [i |-> i, acc |-> acc]
        ELSE IF mb.some /\ SnapshotRange(mb.val)
        THEN PlainOdds(lines, i + 1, idx + 1,
                       Store(acc, order[idx], <<mb.val, mb.book>>, i))
        ELSE IF pure_num_re(l) /\ SnapshotRange(l.v)
        THEN PlainOdds(lines, i + 1, idx + 1, Store(acc, order[idx], <<l.v, "AUTO">>, i))
        ELSE PlainOdds(lines, i + 1, idx, acc)

RECURSIVE PlainScan(_, _)
PlainScan(lines, i) ==
    IF i > Len(lines) THEN <<>>
    ELSE IF SnapshotHeader(lines, i)
    THEN IF i + 2 > Len(lines) THEN <<IndexError>> ELSE
         LET r == PlainOdds(lines, i + 3, 1, EmptyAcc)
         IN  (IF Cardinality(DOMAIN r.acc.odds) >= 3
              THEN <<MatchRecord(lines[i + 1], lines[i + 2], r.acc, i, r.i - 1)>>
              ELSE <<>>)
             \o PlainScan(lines, r.i)
    ELSE PlainScan(lines, i + 1)

_parse_auto_snapshot_plain(lines) == PlainScan(lines, 1)

-----------------------------------------------------------------------------
(* enhanced_football_analyzer.py: parse_flat_blocks.                       *)

\* r"^(sre|uto|ned|cet|pet|pon|sub),", ignoring case
weekday_re(l) == l.k = "weekday"

\* re.search(r"[A-Za-z]", team): the line holds a letter
has_letter(l) == l.k \in {"team", "nav", "header", "weekday", "odds"}

\* 0.5 <= val <= 700, in hundredths
FLAT_MIN_ODDS == 50

FLAT_MAX_ODDS == 70000

\* only a block with exactly 7 odds is processed
FLAT_ODDS_COUNT == 7

\* abs(odd_02 - odd_3plus) < 0.3, in hundredths
FLAT_OU_GAP == 30

\* 1.1 <= odd <= 10.0 for both totals odds, in hundredths
FLAT_OU_MIN == 110

FLAT_OU_MAX == 1000

RECURSIVE FlatCollect(_, _, _)
\* while i < n: the odds collected, the lines they came from and the index
\* the scan ends at
FlatCollect(lines, i, c) ==
    IF i > Len(lines) THEN [c EXCEPT !.i = i]
    ELSE
    LET l == lines[i]
    IN  IF StartsWithPlus(l) THEN [c EXCEPT !.i = i + 1]
        ELSE IF weekday_re(l) /\ i + 1 <= Len(lines) /\ dt_re(lines[i + 1])
        THEN [c EXCEPT !.i = i]
        ELSE IF pure_num_re(l) /\ FLAT_MIN_ODDS <= l.v /\ l.v <= FLAT_MAX_ODDS
        THEN FlatCollect(lines, i + 1,
                         [c EXCEPT !.odds = Append(@, l.v), !.from = Append(@, i)])
        ELSE FlatCollect(lines, i + 1, c)

\* ou_valid without the test that the two totals odds are not too close
FlatValidRangeOnly(odds) ==
    /\ FLAT_OU_MIN <= odds[4] /\ odds[4] <= FLAT_OU_MAX
    /\ FLAT_OU_MIN <= odds[5] /\ odds[5] <= FLAT_OU_MAX

\* has_1x2, has_ou and ou_valid on the seven collected odds
FlatValid(odds) ==
    LET odd_02 == odds[4]
        odd_3plus == odds[5]
    IN  /\ ~(Abs(odd_02 - odd_3plus) < FLAT_OU_GAP)
        /\ FLAT_OU_MIN <= odd_02 /\ odd_02 <= FLAT_OU_MAX
        /\ FLAT_OU_MIN <= odd_3plus /\ odd_3plus <= FLAT_OU_MAX

\* the block whose weekday line is lines[i]: the record, if one is appended
FlatBlock(lines, i, c) ==
    IF Len(c.odds) = FLAT_ODDS_COUNT /\ FlatValid(c.odds)
    THEN <<MatchRecord(lines[i + 2], lines[i + 3],
                       [odds |-> [l \in {order[k] : k \in 1..FLAT_ODDS_COUNT} |->
                                     <<c.odds[CHOOSE k \in 1..FLAT_ODDS_COUNT : order[k] = l],
                                       "AUTO">>],
                        src |-> [l \in {order[k] : k \in 1..FLAT_ODDS_COUNT} |->
                                     c.from[CHOOSE k \in 1..FLAT_ODDS_COUNT : order[k] = l]]],
                       i, c.i - 1)>>
    ELSE <<>>

\* "if weekday_re.search(lines[i]) and i+3 < n and dt_re.search(lines[i+1])"
FlatHeader(lines, i) ==
    weekday_re(lines[i]) /\ i + 3 <= Len(lines) /\ dt_re(lines[i + 1])

RECURSIVE FlatScan(_, _)
\* the rest of the scan once the odds of the block at i are collected
FlatScanFrom(lines, i, c) == FlatBlock(lines, i, c) \o FlatScan(lines, c.i)

FlatScan(lines, i) ==
    IF i > Len(lines) THEN <<>>
    ELSE IF FlatHeader(lines, i)
    THEN IF i + 3 > Len(lines) THEN <<IndexError>>
         ELSE IF ~(has_letter(lines[i + 2]) /\ has_letter(lines[i + 3]))
         THEN FlatScan(lines, i + 1)
         ELSE FlatScanFrom(lines, i,
                           FlatCollect(lines, i + 4, [odds |-> <<>>, from |-> <<>>, i |-> i + 4]))
    ELSE FlatScan(lines, i + 1)

parse_flat_blocks(lines) == FlatScan(lines, 1)

-----------------------------------------------------------------------------
(* enhanced_football_analyzer.py: parse_file, the static layout.           *)

\* the scan looks at the next 30 lines for odds
ODDS_WINDOW == 30

\* 0.5 <= odd <= 69, in hundredths
STATIC_MIN_ODDS == 50

STATIC_MAX_ODDS == 6900

\* a navigation word, a line starting with - + or *, or line.isdigit()
IsJunk(l) == l.k \in {"nav", "sep", "plus", "int"}

\* r'^[A-Za-z...][A-Zaelat...\s\-\.]+$'
team_re(l) == l.k \in {"team", "header"}

\* '----' in l, r'^[\+\-]?\d+$', or a weekday marker
IsSeparator(l) == l.k \in {"sep", "int", "plus", "weekday"}

\* "sre," (or "uto,", "ned,", "cet,") in l.lower()
IsWeekday(l) == l.k = "weekday"

\* lines[j].replace(',', '.'): "sre, 19:30" becomes "sre. 19:30"
ReplaceComma(l) == IF l.k = "weekday" THEN Line("text", 0, "sre. 19:30") ELSE l

Flush(sections, current_section) ==
    IF current_section # <<>> THEN Append(sections, current_section) ELSE sections

RECURSIVE StaticSections(_, _, _, _, _)
\* for j in range(i, end): the sections of odds read and the index the scan
\* stopped at; an odds tuple carries the index of its line, which is what
\* tells two equal tuples apart under Python's "is"
StaticSections(lines, j, last, sections, current_section) ==
    IF j > last
    THEN [sections |-> Flush(sections, current_section), stop |-> last]
    ELSE
    LET l == ReplaceComma(lines[j])
    IN  IF IsSeparator(l) \/ j = last
        THEN IF IsWeekday(l)
             THEN [sections |-> Flush(sections, current_section), stop |-> j]
             ELSE StaticSections(lines, j + 1, last,
                                 Flush(sections, current_section), <<>>)
        ELSE IF l.k = "odds" /\ STATIC_MIN_ODDS <= l.v /\ l.v <= STATIC_MAX_ODDS
        THEN StaticSections(lines, j + 1, last, sections,
                            Append(current_section, <<l.v, l.b, j>>))
        ELSE StaticSections(lines, j + 1, last, sections, current_section)

RECURSIVE MaxByOdd(_)
\* max(section_list, key=lambda x: x[0]): the first of the largest
MaxByOdd(s) ==
    IF Len(s) = 1 THEN s[1]
    ELSE LET m == MaxByOdd(Tail(s)) IN IF Head(s)[1] >= m[1] THEN Head(s) ELSE m

pick(section_list, best) ==
    IF best /\ section_list # <<>> THEN MaxByOdd(section_list) ELSE section_list[1]

\* the odds taken from the sections: label -> (odd, book, line index)
StaticOdds(sections, best) ==
    IF Len(sections) < 4 THEN <<>>
    ELSE
    LET Home == pick(sections[1], best)
        Draw == pick(sections[2], best)
        Away == pick(sections[3], best)
        zero_two_candidates ==
            (IF Len(sections[3]) > 1
             THEN SelectSeq(sections[3], LAMBDA tup : tup # Away) ELSE <<>>)
            \o <<sections[4][1]>>
        src_02 == IF best THEN MaxByOdd(zero_two_candidates) ELSE zero_two_candidates[1]
        rest == SelectSeq(sections[4], LAMBDA tup : tup # src_02)
        plus_candidates == IF rest # <<>> THEN rest ELSE <<sections[4][1]>>
        plus == IF best THEN MaxByOdd(plus_candidates) ELSE plus_candidates[1]
    IN  ("Home" :> Home) @@ ("Draw" :> Draw) @@ ("Away" :> Away)
        @@ ("0-2" :> src_02) @@ ("3+" :> plus)

\* the match starting with the team lines i and i+1, if it has its four odds
StaticMatch(lines, i, best) ==
    LET last == IF Len(lines) < i + 1 + ODDS_WINDOW THEN Len(lines)
                ELSE i + 1 + ODDS_WINDOW
        r == StaticSections(lines, i + 2, last, <<>>, <<>>)
        picked == StaticOdds(r.sections, best)
        acc == [odds |-> [l \in DOMAIN picked |-> <<picked[l][1], picked[l][2]>>],
                src |-> [l \in DOMAIN picked |-> picked[l][3]]]
    IN  IF Cardinality(DOMAIN picked) >= 4
        THEN <<MatchRecord(lines[i], lines[i + 1], acc, i,
                           IF r.stop < i + 1 THEN i + 1 ELSE r.stop)>>
        ELSE <<>>

RECURSIVE StaticScan(_, _, _)
StaticScan(lines, i, best) ==
    IF i > Len(lines) THEN <<>>
    ELSE IF IsJunk(lines[i]) THEN StaticScan(lines, i + 1, best)
    ELSE IF team_re(lines[i]) /\ i + 1 <= Len(lines) /\ team_re(lines[i + 1])
    THEN StaticMatch(lines, i, best) \o StaticScan(lines, i + 2, best)
    ELSE StaticScan(lines, i + 1, best)

\* parse_file as it runs when the module's global flag has the value best
ParseFileWith(lines, best) ==
    IF lines # <<>> /\ lines[1].k = "header"
    THEN LET m1 == _parse_auto_snapshot_lines(lines)
         IN  IF m1 # <<>> THEN m1 ELSE _parse_auto_snapshot_plain(lines)
    ELSE StaticScan(lines, 1, best)

\* parse_file reads the module's global BEST_AGGREGATE
parse_file(lines) == ParseFileWith(lines, BEST_AGGREGATE)

-----------------------------------------------------------------------------
(* arbitrage_football.py: parse_file.                                      *)

\* 1.1 <= odds_val <= 50.0, in hundredths
TOPTIKET_MIN_ODDS == 110

TOPTIKET_MAX_ODDS == 5000

\* at most 10 potential odds are collected
TOPTIKET_MAX_COLLECT == 10

\* r'^\d+:\d+$'
IsTimeAnchor(l) == l.k = "time"

\* a name of invalid_teams, a text holding one, or a text of at most 3 characters
InvalidTeam(l) == l.k \in {"nav", "int"} \/ (l.k = "half" /\ l.v < 1000)

\* float(line.replace(',', '.')): the number, when the text is one
FloatOf(l) == IF l.k \in {"num", "int", "half", "plus"} THEN Matched(l.v, "") ELSE NoMatch

RECURSIVE CollectOdds(_, _, _)
\* while j < len(lines) and len(odds) < 10: the odds collected, the lines
\* they came from and the index the scan ends at
CollectOdds(lines, j, c) ==
    IF j > Len(lines) \/ Len(c.odds) >= TOPTIKET_MAX_COLLECT THEN [c EXCEPT !.j = j]
    ELSE
    LET f == FloatOf(lines[j])
    IN  IF f.some /\ TOPTIKET_MIN_ODDS <= f.val /\ f.val <= TOPTIKET_MAX_ODDS
        THEN CollectOdds(lines, j + 1,
                         [c EXCEPT !.odds = Append(@, f.val), !.from = Append(@, j)])
        ELSE IF c.odds # <<>> THEN [c EXCEPT !.j = j]
        ELSE CollectOdds(lines, j + 1, c)

TopTiketLabels == <<"1", "X", "2", "0-2", "3+", "GG", "NG">>

RECURSIVE TopTiketScan(_, _)
TopTiketScan(lines, i) ==
    IF i > Len(lines) THEN <<>>
    ELSE IF ~IsTimeAnchor(lines[i]) \/ i + 1 > Len(lines)
    THEN TopTiketScan(lines, i + 1)
    ELSE IF InvalidTeam(lines[i + 1]) THEN TopTiketScan(lines, i + 1)
    ELSE IF i + 2 > Len(lines) THEN TopTiketScan(lines, i + 1)
    ELSE IF InvalidTeam(lines[i + 2]) THEN TopTiketScan(lines, i + 1)
    ELSE
    LET c == CollectOdds(lines, i + 3, [odds |-> <<>>, from |-> <<>>, j |-> i + 3])
    IN  IF 5 <= Len(c.odds) /\ Len(c.odds) <= 7
        THEN LET labels == {TopTiketLabels[k] : k \in 1..Len(c.odds)}
                 At(l) == CHOOSE k \in 1..Len(c.odds) : TopTiketLabels[k] = l
                 acc == [odds |-> [l \in labels |-> c.odds[At(l)]],
                         src |-> [l \in labels |-> c.from[At(l)]]]
             IN  <<MatchRecord(lines[i + 1], lines[i + 2], acc, i, c.j - 1)>>
                 \o TopTiketScan(lines, c.j)
        ELSE TopTiketScan(lines, i + 1)

arbitrage_football_parse_file(lines) == TopTiketScan(lines, 1)

-----------------------------------------------------------------------------
(* arbitrage_hockey.py: parse_file.                                        *)

hockey_odds_order == <<"Home", "Draw", "Away", "H1", "H2", "manje", "vise">>

\* a navigation word, a line starting with - + or *, or line.isdigit()
HockeyJunk(l) == l.k \in {"nav", "sep", "plus", "int"}

\* r'^[A-Za-z...0-9][A-Za-z...\s\-\.0-9]+$': digits and dots are allowed,
\* so "2.10" and "2.10Bet" match as well as "FC ALFA"
hockey_team_re(l) == l.k \in {"team", "header", "num", "half", "odds"}

\* r'^(\d+(\.\d+)?)(.*)$': any line starting with a digit, "19:30" included
hockey_odd_re(l) ==
    IF l.k \in {"odds", "num", "int", "half", "time"} THEN Matched(l.v, l.b) ELSE NoMatch

\* re.search(r'(\d+(\.\d+)?)', line): the first number in the line
FirstNumber(l) ==
    CASE l.k \in {"odds", "num", "int", "half", "time", "plus"} -> Matched(l.v, "")
      [] l.k = "weekday" -> Matched(1900, "")
      [] OTHER -> NoMatch

RECURSIVE HockeyWindow(_, _, _, _, _, _)
\* for j in range(i, end); goal_line is 0 while it is unset (not goal_line)
HockeyWindow(lines, j, last, odds_index, goal_line, acc) ==
    IF j > last THEN acc
    ELSE
    LET l == lines[j]
        m == hockey_odd_re(l)
    IN  IF l.k \in {"sep", "plus"} \/ ~m.some
        THEN HockeyWindow(lines, j + 1, last, odds_index, goal_line, acc)
        ELSE IF odds_index <= 5
        THEN HockeyWindow(lines, j + 1, last, odds_index + 1, goal_line,
                          Store(acc, hockey_odds_order[odds_index], <<m.val, m.book>>, j))
        ELSE
        LET goal_match == FirstNumber(lines[j - 1])
            g == IF goal_line = 0 /\ goal_match.some THEN goal_match.val ELSE goal_line
        IN  IF odds_index <= 7
            THEN HockeyWindow(lines, j + 1, last, odds_index + 1, g,
                              Store(acc, hockey_odds_order[odds_index],
                                    <<m.val, m.book, g>>, j))
            ELSE HockeyWindow(lines, j + 1, last, odds_index + 1, g, acc)

RECURSIVE HockeyScan(_, _)
HockeyScan(lines, i) ==
    IF i > Len(lines) THEN <<>>
    ELSE IF HockeyJunk(lines[i]) THEN HockeyScan(lines, i + 1)
    ELSE IF hockey_team_re(lines[i]) /\ i + 1 <= Len(lines) /\ hockey_team_re(lines[i + 1])
    THEN LET last == IF Len(lines) < i + 1 + ODDS_WINDOW THEN Len(lines)
                     ELSE i + 1 + ODDS_WINDOW
             acc == HockeyWindow(lines, i + 2, last, 1, 0, EmptyAcc)
         IN  <<MatchRecord(lines[i], lines[i + 1], acc, i, last)>>
             \o HockeyScan(lines, i + 2)
    ELSE HockeyScan(lines, i + 1)

arbitrage_hockey_parse_file(lines) == HockeyScan(lines, 1)

-----------------------------------------------------------------------------
(* enhanced_hockey_analyzer.py: parse_hockey_text.                         *)

\* 1.01 <= val <= 150, in hundredths
HOCKEY_MIN_ODDS == 101

HOCKEY_MAX_ODDS == 15000

hockey_labels == <<"1", "X", "2">>

RECURSIVE HockeyTextOdds(_, _, _)
\* while i < n and fewer than three of 1, X, 2 are stored
HockeyTextOdds(lines, i, acc) ==
    IF i > Len(lines) \/ Cardinality(DOMAIN acc.odds) >= 3 THEN [i |-> i, acc |-> acc]
    ELSE
    LET l == lines[i]
    IN  IF StartsWithPlus(l) \/ dt_re(l) THEN [i |-> i, acc |-> acc]
        ELSE IF pure_num_re(l) /\ HOCKEY_MIN_ODDS <= l.v /\ l.v <= HOCKEY_MAX_ODDS
        THEN HockeyTextOdds(lines, i + 1,
                            Store(acc, hockey_labels[Cardinality(DOMAIN acc.odds) + 1],
                                  <<l.v, "AUTO">>, i))
        ELSE HockeyTextOdds(lines, i + 1, acc)

RECURSIVE HockeyTextScan(_, _)
HockeyTextScan(lines, i) ==
    IF i > Len(lines) THEN <<>>
    ELSE IF dt_re(lines[i]) /\ i + 2 <= Len(lines)
    THEN LET r == HockeyTextOdds(lines, i + 3, EmptyAcc)
         IN  <<MatchRecord(lines[i + 1], lines[i + 2], r.acc, i, r.i - 1)>>
             \o HockeyTextScan(lines, r.i)
    ELSE HockeyTextScan(lines, i + 1)

parse_hockey_text(lines) == HockeyTextScan(lines, 1)

-----------------------------------------------------------------------------
(* enhanced_tennis_analyzer.py: parse_tennis_flat.                         *)

MARKET_SEQ == <<"Home", "Away", "H1", "Handicap", "H2", "Under", "Handicap2", "Over">>

\* 1.01 <= val <= 200, in hundredths
TENNIS_MIN_ODDS == 101

TENNIS_MAX_ODDS == 20000

RECURSIVE TennisOdds(_, _, _, _)
\* while i<n and idx < len(MARKET_SEQ)
TennisOdds(lines, i, idx, acc) ==
    IF i > Len(lines) \/ idx > Len(MARKET_SEQ) THEN [i |-> i, acc |-> acc]
    ELSE
    LET l == lines[i]
    IN  IF StartsWithPlus(l) \/ dt_re(l) THEN [i |-> i, acc |-> acc]
        ELSE IF pure_num_re(l) /\ TENNIS_MIN_ODDS <= l.v /\ l.v <= TENNIS_MAX_ODDS
        THEN TennisOdds(lines, i + 1, idx + 1,
                        Store(acc, MARKET_SEQ[idx], <<l.v, "AUTO">>, i))
        ELSE TennisOdds(lines, i + 1, idx, acc)

RECURSIVE TennisScan(_, _)
TennisScan(lines, i) ==
    IF i > Len(lines) THEN <<>>
    ELSE IF dt_re(lines[i]) /\ i + 2 <= Len(lines)
    THEN LET r == TennisOdds(lines, i + 3, 1, EmptyAcc)
         IN  (IF Cardinality(DOMAIN r.acc.odds) >= 2
              THEN <<MatchRecord(lines[i + 1], lines[i + 2], r.acc, i, r.i - 1)>>
              ELSE <<>>)
             \o TennisScan(lines, r.i)
    ELSE TennisScan(lines, i + 1)

parse_tennis_flat(lines) == TennisScan(lines, 1)

-----------------------------------------------------------------------------
(* arbitrage_tennis_full.py: _extract_matches_dom, from the list raw_tokens *)
(* of the page's texts on.                                                 *)

\* MIN_ODDS = 1.01 and MAX_ODDS = 80.0, in hundredths
MIN_ODDS == 101

MAX_ODDS == 8000

\* while j < n and safety < 50
SAFETY_LIMIT == 50

\* r'^\d{1,2}:\d{2}$'
time_pat(l) == l.k = "time"

\* r'^[A-Za-z...\s\.,\-]{3,}$': letters, blanks, dots, commas and hyphens only
name_pat(l) == l.k \in {"team", "nav", "header", "sep"}

\* tok.startswith('+') and tok[1:].isdigit()
IsExpander(l) == l.k = "plus"

\* float(tok.replace(',', '.')), None when the text is no number
NumericOf(l) == IF l.k \in {"num", "int", "half", "plus"} THEN Matched(l.v, "") ELSE NoMatch

\* MIN_ODDS <= numeric <= MAX_ODDS
InOddsRange(numeric) == numeric.some /\ MIN_ODDS <= numeric.val /\ numeric.val <= MAX_ODDS

\* is_potential_line(token, numeric, phase) for a token that is a number
is_potential_line(l, numeric, phase) ==
    \/ phase = 1 /\ l.k \in {"half", "plus"}
    \/ phase = 2 /\ l.k = "half" /\ numeric.val > 1000

\* odds_home ... over as the odds stored so far, the two lines (0 for None,
\* else the index of their token) and the phase
DomStart == [acc |-> EmptyAcc, handicap_line |-> 0, total_line |-> 0, phase |-> 0]

DomHas(st, label) == label \in DOMAIN st.acc.odds

DomSet(st, label, numeric, j, phase) ==
    [st EXCEPT !.acc = Store(@, label, numeric.val, j), !.phase = phase]

\* one pass of the loop body at token j: the next j and the next variables
DomStep(tokens, j, st, tok, numeric) ==
    CASE st.phase = 0 ->
            IF InOddsRange(numeric)
            THEN IF ~DomHas(st, "Home") THEN [j |-> j + 1, st |-> DomSet(st, "Home", numeric, j, 0)]
                 ELSE IF ~DomHas(st, "Away")
                 THEN [j |-> j + 1, st |-> DomSet(st, "Away", numeric, j, 1)]
                 ELSE [j |-> j + 1, st |-> st]
            ELSE [j |-> j + 1,
                  st |-> IF DomHas(st, "Home") /\ DomHas(st, "Away")
                         THEN [st EXCEPT !.phase = 1] ELSE st]
      [] st.phase = 1 ->
            IF ~DomHas(st, "H1")
            THEN [j |-> j + 1,
                  st |-> IF InOddsRange(numeric) THEN DomSet(st, "H1", numeric, j, 1) ELSE st]
            ELSE IF st.handicap_line = 0
            THEN IF numeric.some /\ is_potential_line(tok, numeric, 1)
                 THEN [j |-> j + 1, st |-> [st EXCEPT !.handicap_line = j]]
                 ELSE [j |-> j + 1,
                       st |-> IF InOddsRange(numeric) THEN DomSet(st, "H2", numeric, j, 2)
                              ELSE st]
            ELSE IF ~DomHas(st, "H2")
            THEN [j |-> j + 1,
                  st |-> IF InOddsRange(numeric) THEN DomSet(st, "H2", numeric, j, 2) ELSE st]
            ELSE [j |-> j, st |-> [st EXCEPT !.phase = 2]]
      [] st.phase = 2 ->
            IF ~DomHas(st, "Under")
            THEN [j |-> j + 1,
                  st |-> IF InOddsRange(numeric) THEN DomSet(st, "Under", numeric, j, 2)
                         ELSE st]
            ELSE IF st.total_line = 0
            THEN IF numeric.some /\ is_potential_line(tok, numeric, 2)
                 THEN [j |-> j + 1, st |-> [st EXCEPT !.total_line = j]]
                 ELSE [j |-> j + 1,
                       st |-> IF InOddsRange(numeric) THEN DomSet(st, "Over", numeric, j, 3)
                              ELSE st]
            ELSE IF ~DomHas(st, "Over")
            THEN [j |-> j + 1,
                  st |-> IF InOddsRange(numeric) THEN DomSet(st, "Over", numeric, j, 3)
                         ELSE [st EXCEPT !.phase = 3]]
            ELSE [j |-> j + 1, st |-> [st EXCEPT !.phase = 3]]

\* a pass at token x changes nothing but j: the token is no time and no
\* '+' control token and the loop body stores nothing from it
Inert(tokens, x, st) ==
    /\ x <= Len(tokens) /\ st.phase < 3
    /\ ~time_pat(tokens[x]) /\ ~IsExpander(tokens[x])
    /\ DomStep(tokens, x, st, tokens[x], NumericOf(tokens[x])) = [j |-> x + 1, st |-> st]

\* the number of passes from token j on, at most limit, that change nothing
\* but j
InertRun(tokens, j, st, limit) ==
    CHOOSE m \in 0..limit :
        /\ \A x \in j..(j + m - 1) : Inert(tokens, x, st)
        /\ m = limit \/ ~Inert(tokens, j + m, st)

RECURSIVE DomWindow(_, _, _, _)
\* the loop continues from the outcome of one pass
DomWindowNext(tokens, safety, r) == DomWindow(tokens, r.j, safety, r.st)

\* the loop continues behind m passes that changed nothing but j
DomWindowSkip(tokens, j, safety, st, m) == DomWindow(tokens, j + m, safety + m, st)

\* while j < n and safety < 50: the j the loop ends at and the variables
\* then; a run of passes that change nothing but j is taken in one step
DomWindow(tokens, j, safety, st) ==
    IF j > Len(tokens) \/ safety >= SAFETY_LIMIT THEN [j |-> j, st |-> st]
    ELSE IF time_pat(tokens[j]) THEN [j |-> j, st |-> st]
    ELSE IF IsExpander(tokens[j]) THEN [j |-> j + 1, st |-> st]
    ELSE IF st.phase >= 3 THEN [j |-> j, st |-> st]
    ELSE IF Inert(tokens, j, st)
    THEN DomWindowSkip(tokens, j, safety, st, InertRun(tokens, j, st, SAFETY_LIMIT - safety))
    ELSE DomWindowNext(tokens, safety + 1,
                       DomStep(tokens, j, st, tokens[j], NumericOf(tokens[j])))

\* rec: Home and Away, H1 and H2 if both were read, Under and Over if both
\* were read, and the two lines that were read
DomRecord(tokens, i, w) ==
    LET labels == {"Home", "Away"}
                  \cup (IF DomHas(w.st, "H1") /\ DomHas(w.st, "H2") THEN {"H1", "H2"} ELSE {})
                  \cup (IF DomHas(w.st, "Under") /\ DomHas(w.st, "Over")
                        THEN {"Under", "Over"} ELSE {})
    IN  [teams |-> <<tokens[i + 1], tokens[i + 2]>>,
         odds |-> [l \in labels |-> w.st.acc.odds[l]],
         src |-> [l \in labels |-> w.st.acc.src[l]],
         handicap_line |-> IF w.st.handicap_line = 0 THEN None
                           ELSE Some(tokens[w.st.handicap_line].v),
         total_line |-> IF w.st.total_line = 0 THEN None
                        ELSE Some(tokens[w.st.total_line].v),
         line_src |-> {w.st.handicap_line, w.st.total_line} \ {0},
         first |-> i, last |-> w.j - 1]

RECURSIVE DomScan(_, _)
\* the rest of the scan once the tokens after the players at i + 1, i + 2 are read
DomScanFrom(tokens, i, w) ==
    IF DomHas(w.st, "Home") /\ DomHas(w.st, "Away")
    THEN <<DomRecord(tokens, i, w)>> \o DomScan(tokens, w.j)
    ELSE DomScan(tokens, i + 1)

\* while i < n; p1.lower() != p2.lower() on names written in one case
DomScan(tokens, i) ==
    IF i > Len(tokens) THEN <<>>
    ELSE IF /\ time_pat(tokens[i]) /\ i + 2 <= Len(tokens)
            /\ name_pat(tokens[i + 1]) /\ name_pat(tokens[i + 2])
            /\ tokens[i + 1].b # tokens[i + 2].b
    THEN DomScanFrom(tokens, i, DomWindow(tokens, i + 3, 0, DomStart))
    ELSE DomScan(tokens, i + 1)

_extract_matches_dom(raw_tokens) == DomScan(raw_tokens, 1)

-----------------------------------------------------------------------------
(* enhanced_basketball_analyzer.py: parse_basketball_flat.                 *)

BASKETBALL_MARKET_SEQ ==
    <<"1", "2", "H1", "Handicap", "H2", "Under", "Handicap2", "Over">>

\* 1.01 <= val <= 200, in hundredths
BASKETBALL_MIN_ODDS == 101

BASKETBALL_MAX_ODDS == 20000

RECURSIVE BasketballOdds(_, _, _, _)
\* while i<n and idx < len(MARKET_SEQ)
BasketballOdds(lines, i, idx, acc) ==
    IF i > Len(lines) \/ idx > Len(BASKETBALL_MARKET_SEQ) THEN [i |-> i, acc |-> acc]
    ELSE
    LET l == lines[i]
    IN  IF StartsWithPlus(l) \/ dt_re(l) THEN [i |-> i, acc |-> acc]
        ELSE IF pure_num_re(l) /\ BASKETBALL_MIN_ODDS <= l.v /\ l.v <= BASKETBALL_MAX_ODDS
        THEN BasketballOdds(lines, i + 1, idx + 1,
                            Store(acc, BASKETBALL_MARKET_SEQ[idx], <<l.v, "AUTO">>, i))
        ELSE BasketballOdds(lines, i + 1, idx, acc)

RECURSIVE BasketballScan(_, _)
BasketballScan(lines, i) ==
    IF i > Len(lines) THEN <<>>
    ELSE IF dt_re(lines[i]) /\ i + 2 <= Len(lines)
    THEN LET r == BasketballOdds(lines, i + 3, 1, EmptyAcc)
         IN  (IF Cardinality(DOMAIN r.acc.odds) >= 2
              THEN <<MatchRecord(lines[i + 1], lines[i + 2], r.acc, i, r.i - 1)>>
              ELSE <<>>)
             \o BasketballScan(lines, r.i)
    ELSE BasketballScan(lines, i + 1)

parse_basketball_flat(lines) == BasketballScan(lines, 1)

-----------------------------------------------------------------------------
(* enhanced_football_analyzer.py: transform_api_json_to_matches.  An item  *)
(* of the payload holds the team names under 'home' and 'away' ("" when    *)
(* missing) and a price under each of homePrice, drawPrice, awayPrice,     *)
(* under25 and over25: a number in hundredths, or no number.               *)

NoPrice == [has |-> FALSE, v |-> 0]

Price(v) == [has |-> TRUE, v |-> v]

ApiPairs == << <<"homePrice", "Home">>, <<"drawPrice", "Draw">>, <<"awayPrice", "Away">>,
               <<"under25", "0-2">>, <<"over25", "3+">> >>

ApiMatch(item) ==
    IF item.home = "" \/ item.away = "" THEN <<>>
    ELSE
    LET present == {k \in 1..Len(ApiPairs) : item[ApiPairs[k][1]].has}
        KeyOf(label) == CHOOSE k \in present : ApiPairs[k][2] = label
        odds_map == [label \in {ApiPairs[k][2] : k \in present} |->
                        <<item[ApiPairs[KeyOf(label)][1]].v, "API">>]
    IN  IF Cardinality(DOMAIN odds_map) >= 2
        THEN <<[teams |-> <<item.home, item.away>>, odds |-> odds_map]>>
        ELSE <<>>

transform_api_json_to_matches(data) == FlatMap(ApiMatch, data)

-----------------------------------------------------------------------------
(* Inputs of the arithmetic functions.                                     *)

\* two-way quotes in hundredths; 0 and -150 are not positive, 10000 is above every ceiling
PairOdds == {-150, 0, 102, 110, 150, 195, 200, 210, 300, 1100, 1101, 5200, 6828, 10000}

\* three-way quotes in hundredths; 7000 is above the ceiling of check_surebet
TripleOdds == {0, 105, 200, 210, 300, 395, 420, 600, 3000, 7000}

Quote(h) == <<h, IF h % 20 = 0 THEN "Bet1" ELSE "AUTO">>

Groups ==
    {<<Quote(a)>> : a \in PairOdds}
    \cup {<<Quote(a), Quote(b)>> : a \in PairOdds, b \in PairOdds}
    \cup {<<Quote(a), Quote(b), Quote(c)>> : a \in TripleOdds, b \in TripleOdds, c \in TripleOdds}

MaxStakeTens == 2

\* total_stake values: 10, 20, 100
Totals == {10 * k : k \in 1..MaxStakeTens} \cup {DEFAULT_TOTAL_STAKE}

Rounds == {0, 1, 3, 5}

\* min_profit values in percent: 0, 0.01, 0.5, 1, 9
MinProfits == {Q(0, 1), Q(1, 100), Q(1, 2), Q(1, 1), Q(9, 1)}

\* quotes a snapshot parser can store: 0.5 <= o <= 700
ParsedPair == {h \in PairOdds : 50 <= h /\ h <= 70000}

ParsedTriple == {h \in TripleOdds : 50 <= h /\ h <= 70000}

Match3(a, b, c) ==
    [teams |-> "A vs B",
     odds |-> ("Home" :> Quote(a) @@ "Draw" :> Quote(b) @@ "Away" :> Quote(c))]

Match5(a, b, c, u, o) ==
    [teams |-> "C vs D",
     odds |-> ("Home" :> Quote(a) @@ "Draw" :> Quote(b) @@ "Away" :> Quote(c)
               @@ "0-2" :> Quote(u) @@ "3+" :> Quote(o))]

MatchW(a, b, c, w1, w2) ==
    [teams |-> "E vs F",
     odds |-> ("Home" :> Quote(a) @@ "Draw" :> Quote(b) @@ "Away" :> Quote(c)
               @@ "Winner1" :> Quote(w1) @@ "Winner2" :> Quote(w2))]

FootballMatches ==
    {Match3(a, b, c) : a \in ParsedTriple, b \in ParsedTriple, c \in ParsedTriple}
    \cup {Match5(210, 340, 390, u, o) : u \in ParsedPair, o \in ParsedPair}
    \cup {Match5(210, 395, 420, u, o) : u \in {195, 210}, o \in {195, 210}}
    \cup {MatchW(210, 340, 390, w1, w2) : w1 \in {195, 210}, w2 \in {195, 210, 10000}}

FootballLists ==
    {<<>>} \cup {<<m>> : m \in FootballMatches}
    \cup {<<Match3(210, 395, 420), Match5(210, 340, 390, u, 210)>> : u \in {195, 210}}

\* arbitrage_football.parse_file stores a match's five odds, each in [1.1, 50]
TopTiketMatch(a, b, c, u, o) ==
    [teams |-> "A vs B",
     odds |-> ("1" :> a @@ "X" :> b @@ "2" :> c @@ "0-2" :> u @@ "3+" :> o)]

TopTiketOdds(S) == {h \in S : 110 <= h /\ h <= 5000}

TopTiketMatches ==
    {TopTiketMatch(a, b, c, 150, 300) :
        a \in TopTiketOdds(TripleOdds), b \in TopTiketOdds(TripleOdds),
        c \in TopTiketOdds(TripleOdds)}
    \cup {TopTiketMatch(210, 395, 420, u, o) :
            u \in TopTiketOdds(PairOdds), o \in TopTiketOdds(PairOdds)}

TopTiketLists == {<<>>} \cup {<<m>> : m \in TopTiketMatches}

NflMatch(a, b) ==
    [teams |-> "G vs H", odds |-> ("Home" :> Quote(a) @@ "Away" :> Quote(b))]

NflLists ==
    {<<>>} \cup {<<NflMatch(a, b)>> : a \in ParsedPair, b \in ParsedPair}
    \cup {<<NflMatch(a, 210), NflMatch(210, 300)>> : a \in {195, 210, 300, 1100}}

-----------------------------------------------------------------------------

Init ==
    /\ pc = "idle"
    /\ out = [op |-> "none"]
    /\ BEST_AGGREGATE = FALSE
    /\ runs = <<>>
    /\ cycle_count = 0
    /\ successful = 0
    /\ failed = 0
    /\ script_idx = 0
    /\ attempts = <<>>
    /\ scan = [op |-> "none"]
    /\ multi = [at |-> "none"]
    /\ cache = [data |-> "None", updated_at |-> "None", refreshing |-> FALSE,
                error |-> "None"]
    /\ tasks = <<>>

Return(r) ==
    /\ out' = r
    /\ pc' = "done"
    /\ UNCHANGED <<BEST_AGGREGATE, runs, runner, stepwise>>

CallComputeStakes ==
    /\ pc = "idle"
    /\ \E odds \in Groups, total \in Totals, rm \in Rounds :
          Return([op |-> "compute_stakes", odds |-> odds, total_stake |-> total,
                  round_multiple |-> rm, res |-> compute_stakes(odds, total, rm)])

CallComputeStakesTwoWay ==
    /\ pc = "idle"
    /\ \E odds \in Groups, total \in Totals, rm \in Rounds :
          Return([op |-> "compute_stakes_two_way", odds |-> odds, total_stake |-> total,
                  round_multiple |-> rm,
                  res |-> compute_stakes_two_way(odds, total, rm)])

CallHockeyComputeStakes ==
    /\ pc = "idle"
    /\ \E odds \in Groups, total \in Totals, rm \in Rounds :
          Return([op |-> "hockey_compute_stakes", odds |-> odds, total_stake |-> total,
                  round_multiple |-> rm,
                  res |-> hockey_compute_stakes(odds, total, rm)])

CallCheckSurebet ==
    /\ pc = "idle"
    /\ \E odds \in Groups :
          Return([op |-> "check_surebet", odds |-> odds, res |-> check_surebet(odds)])

CallTennisComputeStakes ==
    /\ pc = "idle"
    /\ \E odds \in Groups :
          Return([op |-> "tennis_compute_stakes", odds |-> odds,
                  res |-> tennis_compute_stakes(odds)])

CallTrackerComputeStakes ==
    /\ pc = "idle"
    /\ \E u \in PairOdds, o \in PairOdds :
          /\ u > 0 /\ o > 0
          /\ Return([op |-> "tracker_compute_stakes", u |-> u, o |-> o,
                     res |-> tracker_compute_stakes(u, o, DEFAULT_TOTAL_STAKE)])

CallAnalyzeSurebets ==
    /\ pc = "idle"
    /\ \E matches \in FootballLists, min_profit \in MinProfits,
          stake_total \in Totals \cup {0}, stake_round \in Rounds :
          Return([op |-> "analyze_surebets", matches |-> matches,
                  min_profit |-> min_profit, stake_total |-> stake_total,
                  stake_round |-> stake_round,
                  res |-> analyze_surebets(matches, min_profit, 0, 0,
                                           stake_total, stake_round)])

CallDetectSurebets ==
    /\ pc = "idle"
    /\ \E matches \in TopTiketLists :
          Return([op |-> "detect_surebets", matches |-> matches,
                  res |-> detect_surebets(matches)])

CallDetectTwoWaySurebets ==
    /\ pc = "idle"
    /\ \E matches \in NflLists, min_profit \in MinProfits, total \in Totals :
          Return([op |-> "detect_two_way_surebets", matches |-> matches,
                  min_profit |-> min_profit, total_stake |-> total,
                  res |-> detect_two_way_surebets(matches, min_profit, total)])

NextArb ==
    \/ CallComputeStakes
    \/ CallComputeStakesTwoWay
    \/ CallHockeyComputeStakes
    \/ CallCheckSurebet
    \/ CallTennisComputeStakes
    \/ CallTrackerComputeStakes
    \/ CallAnalyzeSurebets
    \/ CallDetectSurebets
    \/ CallDetectTwoWaySurebets

SpecArb == Init /\ [][NextArb]_vars

-----------------------------------------------------------------------------
(* core/engine.py: capture_and_analyze on the lines the capture wrote.     *)

\* cfg.get('min_odds_per_match', 3)
DEFAULT_MIN_ODDS_PER_MATCH == 3

\* [m for m in matches if len(m.get('odds', {})) >= min_odds_per_match]
FilterMatches(matches, min_odds_per_match) ==
    SelectSeq(matches, LAMBDA m : Cardinality(DOMAIN m.odds) >= min_odds_per_match)

\* the matches of a run and the surebets analyze_surebets finds in them
Analysis(matches, min_profit) ==
    [matches |-> matches, surebets |-> analyze_surebets(matches, min_profit, 0, 0, 0, 1)]

-----------------------------------------------------------------------------
(* Pages given to the parsers.                                             *)

RECURSIVE SeqsUpTo(_, _)
\* the sequences of at most n elements of S
SeqsUpTo(S, n) ==
    IF n = 0 THEN {<<>>}
    ELSE LET P == SeqsUpTo(S, n - 1) IN P \cup {Append(p, x) : p \in P, x \in S}

RECURSIVE Concat(_)
Concat(ss) == IF ss = <<>> THEN <<>> ELSE Head(ss) \o Concat(Tail(ss))

\* odds lines of the first match of a page
MaxOdds == 3

\* sections of the first match of a static page
MaxSections == 4

\* matches that follow the first
MaxFollow == 1

\* numbers after the participants of a TopTiket match
MaxNums == 8

\* items of an API payload
MaxItems == 1

\* runs in one process
MaxRuns == 3

Alfa == TeamLine("FC ALFA")

Beta == TeamLine("FC BETA")

Gama == TeamLine("FC GAMA")

Delta == TeamLine("FC DELTA")

\* one market of a snapshot: a value line and, mostly, its separator
MarketLines ==
    {<<OddsLine(210, "Bet"), SepLine>>, <<OddsLine(99900, "Bet"), SepLine>>,
     <<NumLine(215), SepLine>>, <<NumLine(40)>>, <<IntLine(3), SepLine>>}

FollowFlat ==
    {<<TimeLine, Gama, Delta, NumLine(150), SepLine, NumLine(400), SepLine,
       NumLine(700), SepLine>>,
     <<TimeLine, Gama, Delta>>,
     <<TimeLine>>}

FlatPages ==
    {<<TimeLine, Alfa, Beta>> \o Concat(ms) \o tail \o Concat(fs) :
        ms \in SeqsUpTo(MarketLines, MaxOdds), tail \in {<<>>, <<PlusLine>>},
        fs \in SeqsUpTo(FollowFlat, MaxFollow)}

SnapshotFiles == {<<HeaderLine, SepLine>> \o p : p \in FlatPages}

\* one section of the static layout: the odds of the bookmakers, then a separator
SectionLines ==
    {<<OddsLine(210, "Bet"), SepLine>>,
     <<OddsLine(210, "Bet"), OddsLine(340, "Mozz"), SepLine>>,
     <<OddsLine(7000, "Bet"), SepLine>>,
     <<OddsLine(390, "Mozz"), SepLine>>}

FourSections ==
    <<OddsLine(150, "Bet"), SepLine, OddsLine(400, "Bet"), SepLine,
      OddsLine(700, "Mozz"), SepLine, OddsLine(180, "Bet"), SepLine>>

FollowStatic ==
    {<<WeekdayLine, Gama, Delta>> \o FourSections,
     <<Gama, Delta>> \o FourSections,
     <<OddsLine(340, "Mozz")>>}

StaticPages ==
    {<<Alfa, Beta>> \o Concat(ss) \o Concat(fs) :
        ss \in SeqsUpTo(SectionLines, MaxSections),
        fs \in SeqsUpTo(FollowStatic, MaxFollow)}

TopNums == <<210, 340, 390, 150, 300, 180, 200, 250, 260, 270, 280>>

NumLines(a, b) == [k \in 1..(b - a + 1) |-> NumLine(TopNums[a + k - 1])]

\* what interrupts the run of numbers
Interruptions ==
    {<<>>, <<NumLine(99900)>>, <<Gama>>, <<TimeLine, Gama, Delta>>}

TopTiketPages ==
    {<<TimeLine, t1, Beta>> \o NumLines(1, p) \o brk \o NumLines(p + 1, k) :
        t1 \in {Alfa, NavLine}, brk \in Interruptions,
        k \in 0..MaxNums, p \in 0..MaxNums}
    \ {<<>>}

\* what a page holds before the time line of its match
AnchorPrefixes ==
    {<<>>, <<TimeLine>>, <<WeekdayLine>>, <<TimeLine, NavLine>>,
     <<WeekdayLine, TimeLine, NavLine>>, <<WeekdayLine, TimeLine, Alfa>>}

\* the two lines after the time line
AnchorNames ==
    {<<Alfa, Beta>>, <<NavLine, Beta>>, <<Alfa, NavLine>>, <<IntLine(3), Beta>>,
     <<NumLine(210), Beta>>}

ThreeMarkets ==
    <<OddsLine(210, "Bet"), SepLine, OddsLine(340, "Bet"), SepLine,
      OddsLine(390, "Mozz"), SepLine>>

\* pages that end before a match is complete
ShortPages ==
    {<<>>, <<Alfa>>, <<TimeLine>>, <<TimeLine, Alfa>>, <<TimeLine, Alfa, Beta>>,
     <<WeekdayLine>>, <<WeekdayLine, TimeLine>>, <<WeekdayLine, TimeLine, Alfa>>,
     <<WeekdayLine, TimeLine, Alfa, Beta>>, <<Alfa, Beta, NumLine(210)>>}

\* markets of a page of separators
MaxMarkets == 4

\* one market of a snapshot with what the market loop has to pass over: a
\* second value, a second separator, a value out of range, no value at all
SeparatorMarkets ==
    {<<OddsLine(210, "Bet"), SepLine>>,
     <<OddsLine(210, "Bet"), NumLine(340), SepLine>>,
     <<NumLine(215), SepLine, SepLine>>,
     <<OddsLine(99900, "Bet"), SepLine>>,
     <<SepLine>>}

SeparatorPages ==
    {<<TimeLine, Alfa, Beta>> \o Concat(ms) : ms \in SeqsUpTo(SeparatorMarkets, MaxMarkets)}

SnapshotAnchorPages ==
    {<<HeaderLine, SepLine>> \o pre \o <<TimeLine>> \o names \o SubSeq(ThreeMarkets, 1, k) :
        pre \in AnchorPrefixes, names \in AnchorNames, k \in {4, 6}}
    \cup ShortPages

TopTiketAnchorPages ==
    {pre \o <<TimeLine>> \o names \o NumLines(1, k) :
        pre \in AnchorPrefixes, names \in AnchorNames, k \in {4, 5}}
    \cup ShortPages

FlatBlockPages ==
    {pre \o <<WeekdayLine, TimeLine>> \o names \o NumLines(1, k) \o tail :
        pre \in AnchorPrefixes, names \in AnchorNames, k \in {6, 7},
        tail \in {<<>>, <<PlusLine>>, <<PlusLine, WeekdayLine, TimeLine, Gama, Delta>>
                                        \o NumLines(1, 7)}}
    \cup ShortPages

\* the 0-2 and 3+ odds of a flat block: apart, 0.3 apart, closer than 0.3,
\* equal, at and beyond the ends of the range 1.1 .. 10.0, and in reverse order
TotalsPairs ==
    {<<150, 300>>, <<150, 180>>, <<150, 179>>, <<200, 200>>, <<109, 300>>,
     <<110, 1000>>, <<110, 1001>>, <<300, 150>>, <<5000, 5010>>}

\* a flat block with the given totals odds, alone or before a second block
FlatGatePages ==
    {<<WeekdayLine, TimeLine, Alfa, Beta>> \o NumLines(1, 3)
        \o <<NumLine(p[1]), NumLine(p[2])>> \o NumLines(6, 7) \o tail :
        p \in TotalsPairs,
        tail \in {<<>>, <<PlusLine>>,
                  <<PlusLine, WeekdayLine, TimeLine, Gama, Delta>> \o NumLines(1, 7),
                  <<WeekdayLine, TimeLine, Gama, Delta>> \o NumLines(1, 7)}}

\* the first k elements of s, all of s when it is shorter
Take(s, k) == SubSeq(s, 1, IF k < Len(s) THEN k ELSE Len(s))

\* the handicap pair and the totals pair of a tennis match, with and
\* without the line between the two odds
HandicapTokens ==
    {<<>>, <<NumLine(185), NumLine(195)>>, <<NumLine(185), HalfLine(450), NumLine(195)>>,
     <<NumLine(185), HalfLine(6150), NumLine(195)>>}

TotalsTokens ==
    {<<>>, <<NumLine(180), NumLine(200)>>, <<NumLine(180), HalfLine(2050), NumLine(200)>>,
     <<NumLine(180), HalfLine(950), NumLine(200)>>}

TennisBodies ==
    {<<NumLine(150), NumLine(250)>> \o h \o t : h \in HandicapTokens, t \in TotalsTokens}

TennisPages ==
    {<<TimeLine>> \o names \o Take(body, k) \o tail :
        names \in {<<Alfa, Beta>>, <<Alfa, Alfa>>, <<NavLine, Beta>>, <<IntLine(3), Beta>>},
        body \in TennisBodies, k \in 0..8,
        tail \in {<<>>, <<PlusLine>>,
                  <<TimeLine, Gama, Delta, NumLine(150), NumLine(250)>>}}
    \cup ShortPages

\* k copies of the line f
Fill(k, f) == [i \in 1..k |-> f]

\* tennis pages whose tokens reach to the end of the window of
\* _extract_matches_dom and past it, and pages with a token that is no odds
\* value next to the totals line
DomWindowPages ==
    {<<TimeLine, Alfa, Beta, NumLine(150), NumLine(250)>> \o Fill(k, f)
        \o <<NumLine(185), NumLine(195), NumLine(180), NumLine(200)>> \o tail :
        k \in (SAFETY_LIMIT - 8)..(SAFETY_LIMIT - 3), f \in {SepLine, NumLine(40)},
        tail \in {<<>>, <<PlusLine>>}}
    \cup
    {<<TimeLine, Alfa, Beta, NumLine(150), NumLine(250), NumLine(185), HalfLine(450),
       NumLine(195)>> \o t \o tail :
        t \in {<<NumLine(180), HalfLine(2050), f, NumLine(200)>> : f \in {SepLine, NumLine(40)}}
           \cup {<<NumLine(180), f, HalfLine(2050), NumLine(200)>> : f \in {SepLine, NumLine(40)}},
        tail \in {<<>>, <<PlusLine>>, <<TimeLine, Gama, Delta, NumLine(150), NumLine(250)>>}}

ApiPrices == {NoPrice, Price(210), Price(0), Price(99900)}

ApiItems ==
    {[home |-> h, away |-> "FC BETA", homePrice |-> a, drawPrice |-> b,
      awayPrice |-> c, under25 |-> NoPrice, over25 |-> d] :
        h \in {"", "FC ALFA"}, a \in ApiPrices, b \in ApiPrices,
        c \in {NoPrice, Price(340)}, d \in {NoPrice, Price(195)}}

ApiPayloads == SeqsUpTo(ApiItems, MaxItems)

\* pages of the runs of one process
EnginePages ==
    {<<Alfa, Beta, OddsLine(210, "Bet"), OddsLine(340, "Mozz"), SepLine,
       OddsLine(340, "Bet"), SepLine, OddsLine(390, "Mozz"), SepLine,
       OddsLine(195, "Bet"), OddsLine(210, "Mozz"), SepLine>>,
     <<Alfa, Beta, OddsLine(210, "Bet"), SepLine, OddsLine(395, "Bet"), SepLine,
       OddsLine(420, "Mozz"), SepLine, OddsLine(195, "Bet"), SepLine>>,
     <<HeaderLine, SepLine, TimeLine, Alfa, Beta, OddsLine(210, "Bet"), SepLine,
       OddsLine(395, "Bet"), SepLine, OddsLine(420, "Mozz"), SepLine>>}

-----------------------------------------------------------------------------
(* The parsers, called on a page.                                          *)

\* main(): BEST_AGGREGATE = args.best_aggregate
SetBestAggregate ==
    /\ pc = "idle"
    /\ \E b \in BOOLEAN :
          /\ b # BEST_AGGREGATE
          /\ BEST_AGGREGATE' = b
    /\ UNCHANGED <<pc, out, runs, runner, stepwise>>

CallParseAutoSnapshotLines ==
    /\ pc = "idle"
    /\ \E lines \in SnapshotFiles \cup SnapshotAnchorPages \cup SeparatorPages :
          Return([op |-> "_parse_auto_snapshot_lines", lines |-> lines,
                  res |-> _parse_auto_snapshot_lines(lines)])

CallParseAutoSnapshotPlain ==
    /\ pc = "idle"
    /\ \E lines \in SnapshotFiles \cup SnapshotAnchorPages \cup SeparatorPages :
          Return([op |-> "_parse_auto_snapshot_plain", lines |-> lines,
                  res |-> _parse_auto_snapshot_plain(lines)])

CallParseFlatBlocks ==
    /\ pc = "idle"
    /\ \E lines \in FlatBlockPages \cup FlatGatePages :
          Return([op |-> "parse_flat_blocks", lines |-> lines,
                  res |-> parse_flat_blocks(lines)])

CallParseFile ==
    /\ pc = "idle"
    /\ \E lines \in StaticPages \cup SnapshotFiles :
          Return([op |-> "parse_file", lines |-> lines, res |-> parse_file(lines)])

CallArbitrageFootballParseFile ==
    /\ pc = "idle"
    /\ \E lines \in TopTiketPages \cup TopTiketAnchorPages :
          Return([op |-> "arbitrage_football_parse_file", lines |-> lines,
                  res |-> arbitrage_football_parse_file(lines)])

CallArbitrageHockeyParseFile ==
    /\ pc = "idle"
    /\ \E lines \in StaticPages \cup FlatPages :
          Return([op |-> "arbitrage_hockey_parse_file", lines |-> lines,
                  res |-> arbitrage_hockey_parse_file(lines)])

CallParseHockeyText ==
    /\ pc = "idle"
    /\ \E lines \in FlatPages :
          Return([op |-> "parse_hockey_text", lines |-> lines,
                  res |-> parse_hockey_text(lines)])

CallParseTennisFlat ==
    /\ pc = "idle"
    /\ \E lines \in FlatPages \cup TennisPages :
          Return([op |-> "parse_tennis_flat", lines |-> lines,
                  res |-> parse_tennis_flat(lines)])

CallExtractMatchesDom ==
    /\ pc = "idle"
    /\ \E raw_tokens \in TennisPages \cup DomWindowPages :
          Return([op |-> "_extract_matches_dom", lines |-> raw_tokens,
                  res |-> _extract_matches_dom(raw_tokens)])

CallParseBasketballFlat ==
    /\ pc = "idle"
    /\ \E lines \in FlatPages :
          Return([op |-> "parse_basketball_flat", lines |-> lines,
                  res |-> parse_basketball_flat(lines)])

CallTransformApiJson ==
    /\ pc = "idle"
    /\ \E data \in ApiPayloads :
          Return([op |-> "transform_api_json_to_matches", data |-> data,
                  res |-> transform_api_json_to_matches(data)])

NextParse ==
    \/ SetBestAggregate
    \/ CallParseAutoSnapshotLines
    \/ CallParseAutoSnapshotPlain
    \/ CallParseFlatBlocks
    \/ CallParseFile
    \/ CallArbitrageFootballParseFile
    \/ CallArbitrageHockeyParseFile
    \/ CallParseHockeyText
    \/ CallParseTennisFlat
    \/ CallExtractMatchesDom
    \/ CallParseBasketballFlat
    \/ CallTransformApiJson

SpecParse == Init /\ [][NextParse]_vars

-----------------------------------------------------------------------------
(* Runs in one process: the engine's capture_and_analyze, which sets the   *)
(* analyzer's global flag from its configuration, and parse_file followed  *)
(* by analyze_surebets called on their own.                                *)

Record(run) ==
    /\ runs' = Append(runs, run)
    /\ UNCHANGED <<pc, out, runner, stepwise>>

\* capture_and_analyze(config): the flag is set from the configuration, then
\* the captured file is parsed, filtered and analysed
CaptureAndAnalyze ==
    /\ Len(runs) < MaxRuns
    /\ \E lines \in EnginePages, best_aggregate \in BOOLEAN :
          /\ BEST_AGGREGATE' = best_aggregate
          /\ \E matches \in {FilterMatches(ParseFileWith(lines, best_aggregate),
                                           DEFAULT_MIN_ODDS_PER_MATCH)} :
                Record([op |-> "capture_and_analyze", lines |-> lines,
                        best_aggregate |-> best_aggregate, min_profit |-> Q(0, 1),
                        res |-> Analysis(matches, Q(0, 1))])

\* parse_file(filename) followed by analyze_surebets(matches, min_profit=...)
ParseThenAnalyze ==
    /\ Len(runs) < MaxRuns
    /\ \E lines \in EnginePages, min_profit \in {Q(0, 1), Q(1, 1)} :
          \E matches \in {parse_file(lines)} :
              Record([op |-> "parse_file+analyze_surebets", lines |-> lines,
                      min_profit |-> min_profit, res |-> Analysis(matches, min_profit)])
    /\ UNCHANGED BEST_AGGREGATE

NextEngine ==
    \/ CaptureAndAnalyze
    \/ ParseThenAnalyze

SpecEngine == Init /\ [][NextEngine]_vars

-----------------------------------------------------------------------------
(* main_runner.py: the runner.  A cycle calls run_script on every entry of *)
(* SCRIPTS_TO_RUN, reports the tally and sleeps until the next cycle.      *)

\* cycles of one run of the runner
MaxCycles == 2

\* the script names of SCRIPTS_TO_RUN
SCRIPTS_TO_RUN ==
    <<"arbitrage_tennis.py", "enhanced_basketball_analyzer.py",
      "arbitrage_football.py", "enhanced_player_specials_analyzer.py">>

\* what can happen to one script: the file is missing, the process exits
\* with 0 or with another code, subprocess.run times out or raises another
\* Exception, or the user interrupts it
Outcomes == {"missing", "ok", "nonzero", "timeout", "exception", "interrupt"}

Returns(b) == [raised |-> "none", ret |-> b]

Raises(e) == [raised |-> e, ret |-> FALSE]

\* run_script without its "except Exception" clause
run_script_uncaught(outcome) ==
    CASE outcome = "ok" -> Returns(TRUE)
      [] outcome \in {"missing", "nonzero", "timeout"} -> Returns(FALSE)
      [] outcome = "interrupt" -> Raises("KeyboardInterrupt")
      [] outcome = "exception" -> Raises("Exception")

\* run_script(script_config): True for exit code 0, False for a missing
\* file, another exit code, a timeout or another Exception;
\* KeyboardInterrupt is raised again
run_script(outcome) ==
    CASE outcome = "ok" -> Returns(TRUE)
      [] outcome \in {"missing", "nonzero", "timeout", "exception"} -> Returns(FALSE)
      [] outcome = "interrupt" -> Raises("KeyboardInterrupt")

\* the handlers around main(): exit code 0 for KeyboardInterrupt, 1 for
\* any other exception
Exit(e) ==
    /\ pc' = "stopped"
    /\ out' = [op |-> "exit", code |-> IF e = "KeyboardInterrupt" THEN 0 ELSE 1]

\* main() up to "while True"
MainStart ==
    /\ pc = "idle"
    /\ pc' = "cycle"
    /\ cycle_count' = 0
    /\ UNCHANGED <<out, BEST_AGGREGATE, runs, successful, failed, script_idx, attempts,
                   stepwise>>

\* the head of the while body: the counter and the tallies of a new cycle
BeginCycle ==
    /\ pc = "cycle"
    /\ cycle_count < MaxCycles
    /\ cycle_count' = cycle_count + 1
    /\ successful' = 0
    /\ failed' = 0
    /\ script_idx' = 1
    /\ attempts' = <<>>
    /\ pc' = "scripts"
    /\ UNCHANGED <<out, BEST_AGGREGATE, runs, stepwise>>

\* what one pass of "for script in SCRIPTS_TO_RUN" does with the result r
\* of run_script
ScriptDone(outcome, r) ==
    /\ attempts' = Append(attempts, [script |-> SCRIPTS_TO_RUN[script_idx],
                                     outcome |-> outcome])
    /\ IF r.raised # "none"
       THEN /\ Exit(r.raised)
            /\ UNCHANGED <<successful, failed, script_idx>>
       ELSE /\ successful' = IF r.ret THEN successful + 1 ELSE successful
            /\ failed' = IF r.ret THEN failed ELSE failed + 1
            /\ script_idx' = script_idx + 1
            /\ UNCHANGED <<pc, out>>
    /\ UNCHANGED <<cycle_count, BEST_AGGREGATE, runs, stepwise>>

\* one pass of the for loop: run_script, the tally, time.sleep(5)
RunScript ==
    /\ pc = "scripts"
    /\ script_idx <= Len(SCRIPTS_TO_RUN)
    /\ \E outcome \in Outcomes : ScriptDone(outcome, run_script(outcome))

\* after the for loop: the summary line, the health status, the Telegram
\* summary (a failure to send it is caught), time.sleep(CHECK_INTERVAL)
EndCycle ==
    /\ pc = "scripts"
    /\ script_idx > Len(SCRIPTS_TO_RUN)
    /\ out' = [op |-> "cycle", cycle_count |-> cycle_count,
               successful |-> successful, failed |-> failed,
               status |-> IF failed = 0 THEN "healthy" ELSE "degraded"]
    /\ pc' = "cycle"
    /\ UNCHANGED <<BEST_AGGREGATE, runs, runner, stepwise>>

\* KeyboardInterrupt during time.sleep(CHECK_INTERVAL)
InterruptSleep ==
    /\ pc = "cycle"
    /\ Exit("KeyboardInterrupt")
    /\ UNCHANGED <<BEST_AGGREGATE, runs, runner, stepwise>>

NextRunner ==
    \/ MainStart
    \/ BeginCycle
    \/ RunScript
    \/ EndCycle
    \/ InterruptSleep

\* no step of the runner waits for anything but time
SpecRunner == Init /\ [][NextRunner]_vars /\ WF_vars(NextRunner)

-----------------------------------------------------------------------------
(* Properties of the arithmetic functions.                                 *)

\* the sum of the stakes of a list of [stake, o, b] entries
StakeTotal(stakes) == SumSeq(Firsts(stakes))

\* every outcome pays strictly more than the sum of the stakes
Guaranteed(stakes) ==
    \A i \in 1..Len(stakes) : stakes[i][1] * stakes[i][2] > OddsScale * StakeTotal(stakes)

PositiveOdds(odds) == SelectSeq(Firsts(odds), LAMBDA o : o > 0)

UnitAllocators == {"compute_stakes", "compute_stakes_two_way", "hockey_compute_stakes"}

RECURSIVE QSumSeq(_)
QSumSeq(qs) == IF qs = <<>> THEN QInt(0) ELSE QAdd(Head(qs), QSumSeq(Tail(qs)))

\* every stake[i] * odds[i] is strictly greater than the sum of the rational stakes
GuaranteedQ(stakes, odds) ==
    \A i \in 1..Len(stakes) : QLt(QSumSeq(stakes), QMul(stakes[i], Odd(odds[i])))

\* C2: the allocators that round each stake to two decimals (tennis
\* compute_stakes, tracker compute_stakes behind its surebet_profit gate,
\* arbitrage_football detect_surebets) emit only stakes for which the smallest
\* stake_i * odds_i is strictly greater than the sum of the stakes.
C2_RoundedStakesGuarantee ==
    /\ (out.op = "tennis_compute_stakes" /\ out.res.shape = "pair") =>
           GuaranteedQ(Firsts(out.res.stakes),
                       [i \in 1..Len(out.res.stakes) |-> out.res.stakes[i][2]])
    /\ (out.op = "tracker_compute_stakes"
        /\ QLt(QAdd(QInv(Odd(out.u)), QInv(Odd(out.o))), QInt(1))) =>
           GuaranteedQ(<<out.res[1], out.res[2]>>, <<out.u, out.o>>)
    /\ out.op = "detect_surebets" =>
           \A k \in 1..Len(out.res) : GuaranteedQ(out.res[k].stakes, out.res[k].odds)

\* C3: a group of positive odds whose inverse sum is exactly 1 is not a
\* surebet: check_surebet returns None for it and compute_stakes returns an
\* empty stake list.
C3_ExactOneNotSurebet ==
    (/\ out.op \in {"check_surebet", "compute_stakes"}
     /\ Len(out.odds) >= 2
     /\ PositiveOdds(out.odds) = Firsts(out.odds)
     /\ SumInv(Firsts(out.odds)) = QInt(1)) =>
        IF out.op = "check_surebet" THEN out.res = None ELSE out.res.stakes = <<>>

RECURSIVE SumInvOver(_, _)
\* the inverse sum of the quotes a record stores under the labels in S
SumInvOver(odds, S) ==
    IF S = {} THEN QInt(0)
    ELSE LET l == CHOOSE x \in S : TRUE
         IN  QAdd(QInv(Odd(odds[l][1])), SumInvOver(odds, S \ {l}))

\* the inverse sum over the odds an emitted record stores
StoredInvSum(op, r) ==
    IF op = "detect_surebets" THEN SumInv(r.odds) ELSE SumInvOver(r.odds, DOMAIN r.odds)

\* the ROI field of an emitted record
StoredRoi(op, r) == IF op = "analyze_surebets" THEN r.profit_theoretical ELSE r.roi_pct

Detectors == {"analyze_surebets", "detect_surebets", "detect_two_way_surebets"}

\* C4: every surebet a detector emits has an inverse sum below 1 over the odds
\* stored in the record, and its ROI field equals (1 / inverse sum - 1) * 100
\* rounded to two decimals.
C4_EmittedRoi ==
    out.op \in Detectors =>
        \A k \in 1..Len(out.res) :
            LET inv == StoredInvSum(out.op, out.res[k])
            IN  /\ QLt(inv, QInt(1))
                /\ StoredRoi(out.op, out.res[k])
                       = Round2(QMul(QSub(QDiv(QInt(1), inv), QInt(1)), QInt(100)))

\* a detector has emitted a surebet (a 1X2 one in the case of analyze_surebets)
\* whose rounded ROI differs from its margin
C4_Witness ==
    /\ out.op \in Detectors
    /\ Len(out.res) >= 1
    /\ StoredRoi(out.op, out.res[1]) # Round2(MarginPct(StoredInvSum(out.op, out.res[1])))
    /\ out.op = "analyze_surebets" => out.res[1].type = "1X2"

\* C5: a surebet emitted by analyze_surebets stores no quote outside the
\* range [0.5, 69] of check_surebet: one quote outside it excludes the group.
C5_OutOfRangeExcluded ==
    out.op = "analyze_surebets" =>
        \A k \in 1..Len(out.res) :
            \A l \in DOMAIN out.res[k].odds :
                /\ CHECK_MIN_ODDS <= out.res[k].odds[l][1]
                /\ out.res[k].odds[l][1] <= CHECK_MAX_ODDS

\* C6: analyze_surebets and detect_two_way_surebets emit a surebet only if its
\* ROI, (1 / inverse sum - 1) * 100 over the stored odds, is at least
\* min_profit and strictly positive.
C6_MinProfitGate ==
    out.op \in {"analyze_surebets", "detect_two_way_surebets"} =>
        \A k \in 1..Len(out.res) :
            LET roi == RoiPct(StoredInvSum(out.op, out.res[k]))
            IN  QLe(out.min_profit, roi) /\ QLt(QInt(0), roi)

-----------------------------------------------------------------------------
(* The parsers' records.                                                   *)

Parsers ==
    {"_parse_auto_snapshot_lines", "_parse_auto_snapshot_plain", "parse_file",
     "arbitrage_football_parse_file", "arbitrage_hockey_parse_file",
     "parse_hockey_text", "parse_tennis_flat", "transform_api_json_to_matches"}

\* the odds values stored in a record
StoredValues(op, r) ==
    IF op = "arbitrage_football_parse_file"
    THEN {r.odds[l] : l \in DOMAIN r.odds}
    ELSE {r.odds[l][1] : l \in DOMAIN r.odds}

IsSnapshotFile(lines) == lines # <<>> /\ lines[1].k = "header"

\* the range a parser filters with, in hundredths; a parser that has none is
\* held to the widest range any parser of the repository uses (0.5 .. 700)
InParserRange(op, lines, v) ==
    CASE op = "arbitrage_football_parse_file" ->
            TOPTIKET_MIN_ODDS <= v /\ v <= TOPTIKET_MAX_ODDS
      [] op = "parse_hockey_text" -> HOCKEY_MIN_ODDS <= v /\ v <= HOCKEY_MAX_ODDS
      [] op = "parse_tennis_flat" -> TENNIS_MIN_ODDS <= v /\ v <= TENNIS_MAX_ODDS
      [] op = "parse_file" /\ ~IsSnapshotFile(lines) ->
            STATIC_MIN_ODDS <= v /\ v <= STATIC_MAX_ODDS
      [] OTHER -> SnapshotRange(v)

\* C7: every odds value stored in a record a parser returns lies within the
\* range of that parser; a value outside it is never stored under any label.
C7_RangeGate ==
    out.op \in Parsers =>
        \A k \in 1..Len(out.res) :
            \A v \in StoredValues(out.op, out.res[k]) :
                InParserRange(out.op, IF out.op = "transform_api_json_to_matches"
                                      THEN <<>> ELSE out.lines, v)

\* the parsers of C8: an anchor line followed by the two participants, or,
\* in the static layout, the two participant lines alone
Segmenters == {"parse_file", "_parse_auto_snapshot_lines", "arbitrage_football_parse_file"}

\* the lines that contribute to a record: anchor, participants, stored odds
Contributing(op, lines, r) ==
    (IF op = "parse_file" /\ ~IsSnapshotFile(lines)
     THEN {r.first, r.first + 1}
     ELSE {r.first, r.first + 1, r.first + 2})
    \cup {r.src[l] : l \in DOMAIN r.src}

\* C8: the records of one page come in increasing anchor order and no line
\* contributes to two of them.
C8_SegmentsDisjoint ==
    out.op \in Segmenters =>
        \A a, b \in 1..Len(out.res) :
            a < b =>
                /\ out.res[a].first < out.res[b].first
                /\ Contributing(out.op, out.lines, out.res[a])
                      \cap Contributing(out.op, out.lines, out.res[b]) = {}

\* the records as the program returns them: participants and odds map
Returned(matches) ==
    [k \in 1..Len(matches) |-> [teams |-> matches[k].teams, odds |-> matches[k].odds]]

\* C9: two runs of parse_file followed by analyze_surebets on the same lines
\* with the same min_profit give the same records and the same surebets,
\* whatever ran between them in the process.
C9_Deterministic ==
    \A a, b \in 1..Len(runs) :
        (/\ runs[a].op = "parse_file+analyze_surebets"
         /\ runs[b].op = "parse_file+analyze_surebets"
         /\ runs[a].lines = runs[b].lines
         /\ runs[a].min_profit = runs[b].min_profit)
        => /\ Returned(runs[a].res.matches) = Returned(runs[b].res.matches)
           /\ runs[a].res.surebets = runs[b].res.surebets

\* the least number of odds a parser's market needs
MinOddsCount(op) == IF op = "parse_tennis_flat" THEN 2 ELSE 3

\* C10: the snapshot parsers and the hockey parser return no record with fewer
\* than 3 odds, the tennis parser none with fewer than 2; in particular none
\* with an empty odds map.
C10_MinOddsCount ==
    out.op \in {"_parse_auto_snapshot_lines", "_parse_auto_snapshot_plain",
                "parse_hockey_text", "parse_tennis_flat"} =>
        \A k \in 1..Len(out.res) :
            Cardinality(DOMAIN out.res[k].odds) >= MinOddsCount(out.op)


-----------------------------------------------------------------------------
(* Properties of the match segmentation.                                   *)

\* the parsers that look for a time line followed by two participant lines
\* and the claim's validator of a participant line
AnchorParsers ==
    {"arbitrage_football_parse_file", "_parse_auto_snapshot_lines", "parse_flat_blocks"}

\* a navigation or category term
Stoplisted(l) == l.k = "nav"

\* a text of at most three characters
TooShort(l) == l.k = "int" \/ (l.k = "half" /\ l.v < 1000)

InvalidName(l) == Stoplisted(l) \/ TooShort(l) \/ ~has_letter(l)

\* C11: no match record emitted by arbitrage_football.parse_file,
\* _parse_auto_snapshot_lines or parse_flat_blocks has a participant that is
\* a stoplisted navigation term, too short, or without letters.
C11_NoInvalidParticipant ==
    (pc = "done" /\ out.op \in AnchorParsers) =>
        \A k \in 1..Len(out.res) :
            ~InvalidName(out.res[k].teams[1]) /\ ~InvalidName(out.res[k].teams[2])


\* the scan of a parser started at line q
ScanFrom(op, lines, q) ==
    CASE op = "arbitrage_football_parse_file" -> TopTiketScan(lines, q)
      [] op = "_parse_auto_snapshot_lines" -> SnapshotScan(lines, q)
      [] op = "parse_flat_blocks" -> FlatScan(lines, q)

\* line p is what the parser looks for before two participant lines
IsAnchor(op, lines, p) ==
    CASE op = "arbitrage_football_parse_file" -> IsTimeAnchor(lines[p])
      [] op = "_parse_auto_snapshot_lines" -> dt_re(lines[p])
      [] op = "parse_flat_blocks" ->
            weekday_re(lines[p]) /\ p + 1 <= Len(lines) /\ dt_re(lines[p + 1])

\* the last line examined as a participant candidate of the anchor at p
LastCandidate(op, p) == IF op = "parse_flat_blocks" THEN p + 3 ELSE p + 2

\* a scan started at q emits a match that begins at q and has valid participants
StartsMatch(op, lines, q) ==
    \E k \in 1..Len(ScanFrom(op, lines, q)) :
        LET r == ScanFrom(op, lines, q)[k]
        IN  r.first = q /\ ~InvalidName(r.teams[1]) /\ ~InvalidName(r.teams[2])

\* C12: when the candidate at an anchor p is rejected (its participant lines
\* are invalid or its odds count is not accepted), the scan retries one line
\* later: every valid anchor at p + 1 or inside the participant candidates of
\* p, from which a scan would emit a match, starts a match of the result.
C12_RetryAfterRejection ==
    (pc = "done" /\ out.op \in AnchorParsers) =>
        \A p \in 1..Len(out.lines) :
            (IsAnchor(out.op, out.lines, p) /\ ~StartsMatch(out.op, out.lines, p)) =>
                \A q \in (p + 1)..LastCandidate(out.op, p) :
                    (q <= Len(out.lines) /\ StartsMatch(out.op, out.lines, q)) =>
                        \E k \in 1..Len(out.res) : out.res[k].first = q


-----------------------------------------------------------------------------
(* Properties of the odds extraction.                                      *)

SequentialExtractors ==
    {"_parse_auto_snapshot_plain", "parse_tennis_flat", "parse_basketball_flat"}

\* the label sequence of a sequential extractor
LabelSeq(op) ==
    CASE op = "_parse_auto_snapshot_plain" -> order
      [] op = "parse_tennis_flat" -> MARKET_SEQ
      [] op = "parse_basketball_flat" -> BASKETBALL_MARKET_SEQ

\* the line is a numeric token of the extractor, a number or, for the
\* snapshot, a number followed by a bookmaker, and its value is in range
InRangeToken(op, l) ==
    CASE op = "_parse_auto_snapshot_plain" ->
            l.k \in {"num", "int", "half", "odds"} /\ SNAPSHOT_MIN_ODDS <= l.v /\ l.v <= SNAPSHOT_MAX_ODDS
      [] op = "parse_tennis_flat" ->
            l.k \in {"num", "int", "half"} /\ TENNIS_MIN_ODDS <= l.v /\ l.v <= TENNIS_MAX_ODDS
      [] op = "parse_basketball_flat" ->
            l.k \in {"num", "int", "half"} /\ BASKETBALL_MIN_ODDS <= l.v /\ l.v <= BASKETBALL_MAX_ODDS

RECURSIVE TokensFrom(_, _, _)
\* the indices, in order, of the in-range numeric tokens from line j up to
\* the next '+' line or time line
TokensFrom(op, lines, j) ==
    IF j > Len(lines) \/ lines[j].k \in {"plus", "time", "weekday"} THEN <<>>
    ELSE (IF InRangeToken(op, lines[j]) THEN <<j>> ELSE <<>>) \o TokensFrom(op, lines, j + 1)

\* the record holds, under the n-th label, the n-th token of toks
PrefixOfTokens(op, lines, r, toks) ==
    LET n == Cardinality(DOMAIN r.odds)
    IN  /\ n <= Len(LabelSeq(op)) /\ n <= Len(toks)
        /\ DOMAIN r.odds = {LabelSeq(op)[k] : k \in 1..n}
        /\ \A k \in 1..n :
              /\ r.src[LabelSeq(op)[k]] = toks[k]
              /\ r.odds[LabelSeq(op)[k]][1] = lines[toks[k]].v

\* C13: in every record of _parse_auto_snapshot_plain, parse_tennis_flat and
\* parse_basketball_flat the n-th in-range numeric token after the two
\* participant lines is stored under the n-th label of the label sequence:
\* the labels present are a prefix of the sequence and each holds one token.
C13_SequentialLabels ==
    (pc = "done" /\ out.op \in SequentialExtractors) =>
        \A k \in 1..Len(out.res) :
            PrefixOfTokens(out.op, out.lines, out.res[k],
                           TokensFrom(out.op, out.lines, out.res[k].first + 3))

\* a sequential extractor has returned a record and passed over a number
\* out of range between the lines of its first and second label
C13_Witness ==
    /\ pc = "done" /\ out.op \in SequentialExtractors
    /\ \E k \in 1..Len(out.res) :
          LET r == out.res[k]
              seq == LabelSeq(out.op)
          IN  /\ Cardinality(DOMAIN r.odds) >= 2
              /\ \E j \in (r.src[seq[1]] + 1)..(r.src[seq[2]] - 1) :
                    /\ out.lines[j].k \in {"num", "int", "half", "odds"}
                    /\ ~InRangeToken(out.op, out.lines[j])


\* the tennis extractors, whose token sequence holds handicap and totals lines
ThresholdExtractors == {"parse_tennis_flat", "_extract_matches_dom"}

\* line j is a threshold line: a number with the decimal 5 between two odds
ThresholdLine(lines, j) ==
    /\ lines[j].k = "half"
    /\ j > 1 /\ lines[j - 1].k = "num"
    /\ j < Len(lines) /\ lines[j + 1].k = "num"

\* C14: in the records of parse_tennis_flat and _extract_matches_dom no value
\* of the odds map was read from a threshold line (a handicap spread or a
\* total standing between the two odds of its pair), so no such line can
\* enter an arbitrage test, which reads the odds map only.
C14_ThresholdLineNotOdds ==
    (pc = "done" /\ out.op \in ThresholdExtractors) =>
        \A k \in 1..Len(out.res) :
            \A l \in DOMAIN out.res[k].odds :
                ~ThresholdLine(out.lines, out.res[k].src[l])


\* what compute_stakes returns for a group that is not a surebet
NotASurebet == StakeResult(<<>>, QInt(0), 0, QInt(0), QInt(0), QInt(0))

\* the group is a surebet in theory (inv_sum < 1 over its positive odds)
TheoreticalSurebet(odds) ==
    LET valid == SelectSeq(odds, LAMBDA p : p[1] > 0)
    IN  Len(valid) >= 2 /\ QLt(SumInv(Firsts(valid)), QInt(1))

\* the group of a match under the labels, when every label is present
GroupOf(match, labels) == [i \in 1..Len(labels) |-> match.odds[labels[i]]]

\* the market blocks of analyze_surebets: label sequence and type
AnalyzedGroups ==
    {<<<<"Home", "Draw", "Away">>, "1X2">>, <<<<"0-2", "3+">>, "0-2 / 3+">>,
     <<<<"Winner1", "Winner2">>, "Winner">>}

\* the group g of the match passed the gate of analyze_surebets and
\* compute_stakes returned no stakes for it: rounding removed the profit
NotActionable(match, g, min_profit, total_target, stake_round) ==
    /\ Cardinality(DOMAIN match.odds) >= 2
    /\ \A i \in 1..Len(g[1]) : g[1][i] \in DOMAIN match.odds
    /\ TheoreticalSurebet(GroupOf(match, g[1]))
    /\ LET profit == check_surebet(GroupOf(match, g[1]))
       IN  profit.some /\ QLe(min_profit, profit.v) /\ QLt(QInt(0), profit.v)
    /\ compute_stakes(GroupOf(match, g[1]), total_target, stake_round).stakes = <<>>

\* the total analyze_surebets hands to compute_stakes
TotalTarget(stake_total) ==
    choose_total_stake(DEFAULT_STAKE_MIN, DEFAULT_STAKE_MAX, stake_total)

\* C15: a group that is a surebet in theory and loses its profit to rounding
\* is told apart from a group that is not a surebet: compute_stakes returns
\* for it something other than what it returns for a group that is not a
\* surebet, and the result of analyze_surebets holds a report for it (a group
\* that is not a surebet leaves nothing in the result).
C15_NotActionableDistinct ==
    /\ (pc = "done" /\ out.op = "compute_stakes"
        /\ TheoreticalSurebet(out.odds) /\ out.res.stakes = <<>>)
          => out.res # NotASurebet
    /\ (pc = "done" /\ out.op = "analyze_surebets") =>
          \A k \in 1..Len(out.matches) : \A g \in AnalyzedGroups :
              NotActionable(out.matches[k], g, out.min_profit,
                            TotalTarget(out.stake_total), out.stake_round)
                => \E e \in 1..Len(out.res) :
                      /\ out.res[e].match = out.matches[k].teams
                      /\ out.res[e].type = g[2]

\* the part of C15 about compute_stakes alone
C15_StakesPart ==
    (pc = "done" /\ out.op = "compute_stakes"
     /\ TheoreticalSurebet(out.odds) /\ out.res.stakes = <<>>)
       => out.res # NotASurebet


-----------------------------------------------------------------------------
(* Properties of the line parsers on short and anchorless pages.           *)

LineParsers ==
    {"_parse_auto_snapshot_lines", "_parse_auto_snapshot_plain", "parse_flat_blocks"}

\* line p is what the parser takes for the start of a match
AnchorAt(op, lines, p) ==
    IF op = "parse_flat_blocks"
    THEN weekday_re(lines[p]) /\ p + 1 <= Len(lines) /\ dt_re(lines[p + 1])
    ELSE dt_re(lines[p])

\* the lines after an anchor that the parser reads as time and participants
LinesAfterAnchor(op) == IF op = "parse_flat_blocks" THEN 3 ELSE 2

\* every line the record was read from is a line of the sequence
ReadsInside(op, lines, r) ==
    /\ 1 <= r.first /\ r.first + LinesAfterAnchor(op) <= Len(lines)
    /\ r.last <= Len(lines)
    /\ \A l \in DOMAIN r.src : r.src[l] \in 1..Len(lines)

\* C16: for every token sequence, the empty one and those that end right
\* after an anchor or after one participant line included, the line parsers
\* _parse_auto_snapshot_lines, _parse_auto_snapshot_plain and
\* parse_flat_blocks return a list, never end with IndexError and read no
\* line outside the sequence; a sequence without an anchor gives the empty list.
C16_LineParsersTotal ==
    (pc = "done" /\ out.op \in LineParsers) =>
        /\ \A k \in 1..Len(out.res) :
              out.res[k] # IndexError /\ ReadsInside(out.op, out.lines, out.res[k])
        /\ (\A p \in 1..Len(out.lines) : ~AnchorAt(out.op, out.lines, p))
              => out.res = <<>>

\* a line parser has returned the empty list for a sequence that ends right
\* after an anchor or before the second participant line
C16_Witness ==
    /\ pc = "done" /\ out.op \in LineParsers
    /\ out.res = <<>>
    /\ \E p \in 1..Len(out.lines) :
          /\ AnchorAt(out.op, out.lines, p)
          /\ p + LinesAfterAnchor(out.op) > Len(out.lines)


-----------------------------------------------------------------------------
(* Properties of the runner.                                               *)

\* the calls of the cycle so far are the first scripts of the list, in order
InListOrder ==
    /\ Len(attempts) <= Len(SCRIPTS_TO_RUN)
    /\ \A k \in 1..Len(attempts) : attempts[k].script = SCRIPTS_TO_RUN[k]

\* the tallies count the calls that returned
TallyMatches ==
    /\ pc = "scripts" =>
          Len(attempts) = script_idx - 1 /\ successful + failed = Len(attempts)
    /\ (pc = "cycle" /\ cycle_count >= 1) =>
          /\ Len(attempts) = Len(SCRIPTS_TO_RUN)
          /\ successful + failed = Len(SCRIPTS_TO_RUN)
          /\ out.op = "cycle" /\ out.cycle_count = cycle_count
          /\ out.successful = successful /\ out.failed = failed

\* only the user's interrupt ends the runner
StoppedByUser == pc = "stopped" => (out.op = "exit" /\ out.code = 0)

\* a cycle is left only into the next one, with fresh tallies, or by the
\* user's interrupt
NextCycleFollows ==
    (pc = "cycle" /\ pc' # "cycle") =>
        \/ pc' = "stopped"
        \/ /\ pc' = "scripts" /\ cycle_count' = cycle_count + 1
           /\ successful' = 0 /\ failed' = 0 /\ attempts' = <<>>

\* C17: within a cycle of the runner the scripts of SCRIPTS_TO_RUN are
\* attempted once each in list order, whether the scripts before were
\* missing, exited with an error, timed out or raised; at the end of the
\* cycle successful + failed is the number of scripts, and the runner goes
\* on to the next cycle: only the user's interrupt stops it.
C17_CycleRunsEveryScript ==
    /\ [](InListOrder /\ TallyMatches /\ StoppedByUser)
    /\ [][NextCycleFollows]_vars
    /\ (pc = "scripts") ~> (pc = "cycle" \/ pc = "stopped")

\* the runner has finished a second cycle in which the first script raised
\* an exception, the second was missing, the third timed out and the last
\* one succeeded
C17_Witness ==
    /\ pc = "cycle" /\ cycle_count = 2
    /\ Len(attempts) = 4
    /\ attempts[1].outcome = "exception" /\ attempts[2].outcome = "missing"
    /\ attempts[3].outcome = "timeout" /\ attempts[4].outcome = "ok"
    /\ out.successful = 1 /\ out.failed = 3


-----------------------------------------------------------------------------
(* Properties of the theoretical allocation.                               *)

\* equality of two fractions: their reduced forms are the same
QEq(x, y) == Q(x.n, x.d) = Q(y.n, y.d)

RECURSIVE QSum(_)
QSum(xs) == IF xs = <<>> THEN QInt(0) ELSE QAdd(Head(xs), QSum(Tail(xs)))

\* the allocation pays total_stake / inv_sum on every outcome and its stakes
\* add up to total_stake
EqualReturns(valid, unrounded, total_stake) ==
    /\ \A i \in 1..Len(valid) :
          QEq(QMul(unrounded[i], Odd(valid[i][1])),
              QDiv(QInt(total_stake), SumInv(Firsts(valid))))
    /\ QEq(QSum(unrounded), QInt(total_stake))

\* C18: the unrounded allocation stake_i = total_stake * (1/odds_i) / inv_sum
\* of compute_stakes has the same return stake_i * odds_i on every outcome,
\* equal to total_stake / inv_sum, and its stakes add up to total_stake; the
\* theoretical profit compute_stakes reports is that return less the total.
\* The stakes of tracker.compute_stakes are this allocation of a pair,
\* rounded to cents, and its profit is the common return less the total.
C18_EqualReturns ==
    /\ (pc = "done" /\ out.op = "compute_stakes" /\ TheoreticalSurebet(out.odds)) =>
          LET valid == SelectSeq(out.odds, LAMBDA p : p[1] > 0)
              unrounded == Unrounded(valid, out.total_stake)
          IN  /\ EqualReturns(valid, unrounded, out.total_stake)
              /\ out.res.profit_abs_theoretical =
                    Round2(QSub(QMul(unrounded[1], Odd(valid[1][1])),
                                QInt(out.total_stake)))
    /\ (pc = "done" /\ out.op = "tracker_compute_stakes") =>
          LET valid == <<<<out.u, "AUTO">>, <<out.o, "AUTO">>>>
              unrounded == Unrounded(valid, DEFAULT_TOTAL_STAKE)
          IN  /\ EqualReturns(valid, unrounded, DEFAULT_TOTAL_STAKE)
              /\ out.res[1] = Round2(unrounded[1])
              /\ out.res[2] = Round2(unrounded[2])
              /\ out.res[3] = Round2(QSub(QMul(unrounded[2], Odd(out.o)),
                                          QInt(DEFAULT_TOTAL_STAKE)))

\* compute_stakes has allocated a stake to three outcomes of different odds
C18_Witness ==
    /\ pc = "done" /\ out.op = "compute_stakes" /\ TheoreticalSurebet(out.odds)
    /\ Len(out.res.stakes) = 3
    /\ out.odds[1][1] # out.odds[2][1] /\ out.odds[2][1] # out.odds[3][1]
    /\ out.odds[1][1] # out.odds[3][1]


-----------------------------------------------------------------------------
(* Properties of the market machine of _parse_auto_snapshot_lines.         *)

\* the line is one the market loop stores when no value is pending
StoresValue(l) ==
    \/ odd_re(l).some /\ SnapshotRange(odd_re(l).val)
    \/ pure_num_re(l) /\ SnapshotRange(l.v)

RECURSIVE FirstFrom(_, _, _, _)
\* the first line from j up to stop - 1 that is a separator (what = "sep")
\* or holds a value (what = "value"); stop when there is none
FirstFrom(lines, j, stop, what) ==
    IF j >= stop THEN stop
    ELSE IF (what = "sep" /\ sep_re(lines[j]))
            \/ (what = "value" /\ ~sep_re(lines[j]) /\ StoresValue(lines[j]))
    THEN j
    ELSE FirstFrom(lines, j + 1, stop, what)

RECURSIVE ValueLines(_, _, _, _)
\* the lines the markets k, k + 1, ... take their values from, when market k
\* opens at line j: the first value line from j on, and the next market
\* opens behind the first separator that follows it
ValueLines(lines, j, stop, k) ==
    LET v == FirstFrom(lines, j, stop, "value")
    IN  IF k > Len(order) \/ v >= stop THEN <<>>
        ELSE <<v>> \o ValueLines(lines, FirstFrom(lines, v + 1, stop, "sep") + 1, stop, k + 1)

\* the k-th label of the record is read from the k-th line of ml
ReadFromLines(r, ml) ==
    /\ DOMAIN r.odds = {order[k] : k \in 1..Len(ml)}
    /\ \A k \in 1..Len(ml) : r.src[order[k]] = ml[k]

\* C19: in _parse_auto_snapshot_lines the market index advances by one at a
\* separator exactly when a value was stored for the current market since
\* the last advance, a separator without a stored value leaves it where it
\* is, and a market keeps the first value line in range only: the labels of
\* a record are, in order, the first value line of the block, then the first
\* value line behind the first separator after the previous stored line.
C19_SeparatorAdvancesMarket ==
    (pc = "done" /\ out.op = "_parse_auto_snapshot_lines") =>
        \A n \in 1..Len(out.res) :
            ReadFromLines(out.res[n],
                          ValueLines(out.lines, out.res[n].first + 3,
                                      BlockEnd(out.lines, out.res[n].first + 3), 1))

\* a record whose block holds a separator right after a separator, before
\* its second stored line, and a second value line in its first market
C19_Witness ==
    /\ pc = "done" /\ out.op = "_parse_auto_snapshot_lines"
    /\ \E n \in 1..Len(out.res) :
          LET r == out.res[n]
          IN  /\ \E j \in (r.src["Home"] + 1)..(r.src["Draw"] - 2) :
                    /\ StoresValue(out.lines[j])
                    /\ \A i \in (r.src["Home"] + 1)..j : ~sep_re(out.lines[i])
              /\ \E j \in (r.src["Home"] + 1)..(r.src["Draw"] - 2) :
                    sep_re(out.lines[j]) /\ sep_re(out.lines[j + 1])


-----------------------------------------------------------------------------
(* Properties of the end of the odds scan.                                 *)

WindowExtractors ==
    {"_parse_auto_snapshot_lines", "_parse_auto_snapshot_plain", "_extract_matches_dom"}

\* a '+' control line or the anchor line of the next match
StopMarker(op, l) ==
    IF op = "_extract_matches_dom" THEN time_pat(l) \/ IsExpander(l)
    ELSE StartsWithPlus(l) \/ dt_re(l)

RECURSIVE FirstMarker(_, _, _)
\* the first stop marker from line j on, Len(lines) + 1 when there is none
FirstMarker(op, lines, j) ==
    IF j > Len(lines) \/ StopMarker(op, lines[j]) THEN j
    ELSE FirstMarker(op, lines, j + 1)

\* the last label of the label sequence of the extractor
LastLabel(op) == IF op = "_extract_matches_dom" THEN "Over" ELSE order[Len(order)]

\* the line behind the one that filled the last label, Len(lines) + 1 when
\* the last label stayed empty
AllFilledAt(op, lines, r) ==
    IF LastLabel(op) \in DOMAIN r.odds THEN r.src[LastLabel(op)] + 1 ELSE Len(lines) + 1

\* the first line behind the window: _extract_matches_dom reads at most
\* SAFETY_LIMIT tokens, the snapshot parsers have no bound but the page
WindowEnd(op, lines, r) ==
    IF op = "_extract_matches_dom" THEN r.first + 3 + SAFETY_LIMIT ELSE Len(lines) + 1

\* the smallest of three numbers
Min3(a, b, c) == IF a <= b /\ a <= c THEN a ELSE IF b <= c THEN b ELSE c

\* where the scan of the record ends: the first of all labels filled, a stop
\* marker, the end of the window
StopPosition(op, lines, r) ==
    Min3(AllFilledAt(op, lines, r), FirstMarker(op, lines, r.first + 3),
         WindowEnd(op, lines, r))

\* the scan of the record went on to the stop position, assigned no line at
\* or behind it, and read no more lines than the window holds
StopsAt(op, lines, r, stop) ==
    /\ r.last + 1 >= stop
    /\ \A l \in DOMAIN r.src : r.src[l] < stop
    /\ op = "_extract_matches_dom" => r.last - (r.first + 2) <= SAFETY_LIMIT

\* C20: the odds scan of a match in _parse_auto_snapshot_lines,
\* _parse_auto_snapshot_plain and _extract_matches_dom ends at the first of:
\* all labels filled, a '+' line or the next anchor line, the window bound.
\* It does not end before that position, no line at or behind it is assigned
\* to the match, and it reads no more tokens than the window bound.
C20_ScanStopsAtFirstStop ==
    (pc = "done" /\ out.op \in WindowExtractors) =>
        \A n \in 1..Len(out.res) :
            StopsAt(out.op, out.lines, out.res[n],
                    StopPosition(out.op, out.lines, out.res[n]))

\* the part of C20 that bounds the scan from above
C20_NothingPastStop ==
    (pc = "done" /\ out.op \in WindowExtractors) =>
        \A n \in 1..Len(out.res) :
            LET r == out.res[n]
                stop == StopPosition(out.op, out.lines, r)
            IN  /\ \A l \in DOMAIN r.src : r.src[l] < stop
                /\ out.op = "_extract_matches_dom" => r.last - (r.first + 2) <= SAFETY_LIMIT


-----------------------------------------------------------------------------
(* Properties of the best-aggregate mode.                                  *)

\* the extractors that keep a stage and read BEST_AGGREGATE or run under it
StageExtractors == {"_parse_auto_snapshot_lines", "parse_file"}

\* the labels of the static layout that take their value from one section
SectionLabels == <<"Home", "Draw", "Away">>

\* the sections parse_file read for the record
SectionsOf(lines, r) ==
    StaticSections(lines, r.first + 2,
                   IF Len(lines) < r.first + 1 + ODDS_WINDOW THEN Len(lines)
                   ELSE r.first + 1 + ODDS_WINDOW,
                   <<>>, <<>>).sections

\* the value the market loop stores from a value line
StoredValue(l) ==
    IF odd_re(l).some /\ SnapshotRange(odd_re(l).val) THEN odd_re(l).val ELSE l.v

\* the odds values the page shows for the stage of the k-th label, in the
\* order of the page: the value lines of the market up to its separator in
\* the snapshot layout, the k-th section in the static layout
StageValues(op, lines, r, k) ==
    IF op = "_parse_auto_snapshot_lines"
    THEN LET stop == BlockEnd(lines, r.first + 3)
             to == FirstFrom(lines, r.src[order[k]], stop, "sep")
             at == SelectSeq([j \in 1..Len(lines) |-> j],
                             LAMBDA j : /\ r.src[order[k]] <= j /\ j < to
                                        /\ StoresValue(lines[j]))
         IN  [n \in 1..Len(at) |-> StoredValue(lines[at[n]])]
    ELSE LET section == SectionsOf(lines, r)[k]
         IN  [n \in 1..Len(section) |-> section[n][1]]

\* the labels of the record whose stage the property looks at
StageLabels(op, lines, r) ==
    IF op = "_parse_auto_snapshot_lines"
    THEN {k \in 1..Len(order) : order[k] \in DOMAIN r.odds}
    ELSE IF lines # <<>> /\ lines[1].k = "header" THEN {}
    ELSE 1..Len(SectionLabels)

MaxValue(vs) == CHOOSE m \in {vs[n] : n \in 1..Len(vs)} : \A n \in 1..Len(vs) : vs[n] <= m

\* the value of the stage that the record holds under the mode
Kept(vs, best) == IF best THEN MaxValue(vs) ELSE vs[1]

\* C21: when several odds values appear for a market before the stage
\* advances, the value stored for the market is the largest of them with
\* BEST_AGGREGATE on and the first of them with BEST_AGGREGATE off.
C21_BestAggregateKeepsMax ==
    (pc = "done" /\ out.op \in StageExtractors) =>
        \A n \in 1..Len(out.res) :
            \A k \in StageLabels(out.op, out.lines, out.res[n]) :
                out.res[n].odds[order[k]][1]
                    = Kept(StageValues(out.op, out.lines, out.res[n], k), BEST_AGGREGATE)

\* the same for the static layout of parse_file alone
C21_StaticSections ==
    (pc = "done" /\ out.op = "parse_file") =>
        \A n \in 1..Len(out.res) :
            \A k \in StageLabels(out.op, out.lines, out.res[n]) :
                out.res[n].odds[order[k]][1]
                    = Kept(StageValues(out.op, out.lines, out.res[n], k), BEST_AGGREGATE)

\* the snapshot layout keeps the first value of the stage under either mode
C21_SnapshotKeepsFirst ==
    (pc = "done" /\ out.op = "_parse_auto_snapshot_lines") =>
        \A n \in 1..Len(out.res) :
            \A k \in StageLabels(out.op, out.lines, out.res[n]) :
                out.res[n].odds[order[k]][1]
                    = Kept(StageValues(out.op, out.lines, out.res[n], k), FALSE)

\* a static record with a section whose largest value is not its first, read
\* with BEST_AGGREGATE on
C21_StaticCase ==
    /\ pc = "done" /\ out.op = "parse_file" /\ BEST_AGGREGATE
    /\ \E n \in 1..Len(out.res) :
          \E k \in StageLabels(out.op, out.lines, out.res[n]) :
              LET vs == StageValues(out.op, out.lines, out.res[n], k)
              IN  MaxValue(vs) # vs[1]


-----------------------------------------------------------------------------
(* Properties of the validation gate of parse_flat_blocks.                 *)

RECURSIVE FlatBlocks(_, _)
\* the blocks of a page in the order of the scan: the index of the weekday
\* line of each and the odds collected behind its participants
FlatBlocks(lines, i) ==
    IF i > Len(lines) THEN <<>>
    ELSE IF FlatHeader(lines, i) /\ has_letter(lines[i + 2]) /\ has_letter(lines[i + 3])
    THEN LET c == FlatCollect(lines, i + 4, [odds |-> <<>>, from |-> <<>>, i |-> i + 4])
         IN  <<[at |-> i, odds |-> c.odds]>> \o FlatBlocks(lines, c.i)
    ELSE FlatBlocks(lines, i + 1)

\* the two totals odds, in hundredths, differ by less than 0.3 or one of
\* them lies outside 1.1 .. 10.0
Misaligned(under, over) ==
    \/ Abs(under - over) < 30
    \/ under < 110 \/ under > 1000
    \/ over < 110 \/ over > 1000

\* the blocks of the page that hold seven odds with totals odds that pass
AcceptedBlocks(lines) ==
    SelectSeq(FlatBlocks(lines, 1),
              LAMBDA b : Len(b.odds) = 7 /\ ~Misaligned(b.odds[4], b.odds[5]))

\* C22: parse_flat_blocks ends without an error, emits no match whose 0-2
\* and 3+ odds differ by less than 0.3 or lie outside 1.1 .. 10.0, and a
\* block that fails this produces no record while the blocks after it are
\* still read: the records are, in order, the blocks of seven odds that pass.
C22_ValidationGate ==
    (pc = "done" /\ out.op = "parse_flat_blocks") =>
        /\ \A n \in 1..Len(out.res) :
              /\ out.res[n] # IndexError
              /\ ~Misaligned(out.res[n].odds["0-2"][1], out.res[n].odds["3+"][1])
        /\ Len(out.res) = Len(AcceptedBlocks(out.lines))
        /\ \A n \in 1..Len(out.res) :
              out.res[n].first = AcceptedBlocks(out.lines)[n].at

\* a block of seven odds with totals odds too close is dropped and the block
\* after it is returned
C22_Witness ==
    /\ pc = "done" /\ out.op = "parse_flat_blocks"
    /\ \E b \in 1..Len(FlatBlocks(out.lines, 1)) :
          LET blk == FlatBlocks(out.lines, 1)[b]
          IN  /\ Len(blk.odds) = 7
              /\ Abs(blk.odds[4] - blk.odds[5]) < 30
              /\ \A n \in 1..Len(out.res) : out.res[n].first # blk.at
              /\ \E n \in 1..Len(out.res) : out.res[n].first > blk.at


-----------------------------------------------------------------------------
(* Properties of the rounded stakes of compute_stakes.                     *)

\* the rounding unit in force: "if round_multiple < 1: round_multiple = 1"
UnitOf(round_multiple) == IF round_multiple < 1 THEN 1 ELSE round_multiple

\* the outcomes compute_stakes allocates to
ValidOf(odds) == SelectSeq(odds, LAMBDA p : p[1] > 0)

\* the theoretical stake of outcome i is below one unit
BelowUnit(odds, total_stake, round_multiple, i) ==
    QLt(Unrounded(ValidOf(odds), total_stake)[i], QInt(UnitOf(round_multiple)))

\* C23: every stake of a non-empty result of compute_stakes is a positive
\* whole multiple of the rounding unit, the unit being 1 when a
\* round_multiple below 1 is passed; no returned stake is zero or negative.
C23_StakesAreUnitMultiples ==
    (pc = "done" /\ out.op = "compute_stakes") =>
        \A i \in 1..Len(out.res.stakes) :
            /\ out.res.stakes[i][1] > 0
            /\ out.res.stakes[i][1] % UnitOf(out.round_multiple) = 0

\* a non-empty result with a unit above 1 in which one stake was raised from
\* below one unit and another was floored to a multiple it did not have
C23_Witness ==
    /\ pc = "done" /\ out.op = "compute_stakes" /\ out.round_multiple > 1
    /\ out.res.stakes # <<>>
    /\ \E i \in 1..Len(out.res.stakes) :
          BelowUnit(out.odds, out.total_stake, out.round_multiple, i)
    /\ \E i \in 1..Len(out.res.stakes) :
          /\ ~BelowUnit(out.odds, out.total_stake, out.round_multiple, i)
          /\ Unrounded(ValidOf(out.odds), out.total_stake)[i].d # 1


-----------------------------------------------------------------------------
(* Properties of the effective total of compute_stakes.                    *)

\* a floored stake was raised to the one-unit minimum
ForcedUp(odds, total_stake, round_multiple) ==
    \E i \in 1..Len(ValidOf(odds)) : BelowUnit(odds, total_stake, round_multiple, i)

\* the effective total lies within one unit below the target unless a stake
\* was raised to the minimum
WithinUnit(odds, total_stake, round_multiple, effective_total) ==
    ~ForcedUp(odds, total_stake, round_multiple) =>
        /\ total_stake - UnitOf(round_multiple) < effective_total
        /\ effective_total <= total_stake

\* C24: after the redistribution total_stake - round_multiple <
\* effective_total <= total_stake whenever no stake was raised to the
\* one-unit minimum, so the effective total exceeds total_stake only when
\* one was, and the effective total returned always equals the sum of the
\* stakes returned.
C24_EffectiveTotal ==
    (pc = "done" /\ out.op = "compute_stakes") =>
        /\ TheoreticalSurebet(out.odds) =>
              WithinUnit(out.odds, out.total_stake, out.round_multiple,
                         out.res.effective_total)
        /\ out.res.effective_total = StakeTotal(out.res.stakes)

\* C24, amended: the bounds as stated; the effective total equals the sum of
\* the stakes returned whenever stakes are returned, and is 0 for a group
\* that is no surebet in theory.  When rounding removed the profit the stake
\* list is empty and the effective total is still the total of the
\* allocation that was dropped: at least one unit per outcome.
C24_EffectiveTotalOfStakes ==
    (pc = "done" /\ out.op = "compute_stakes") =>
        /\ TheoreticalSurebet(out.odds) =>
              /\ WithinUnit(out.odds, out.total_stake, out.round_multiple,
                            out.res.effective_total)
              /\ out.res.effective_total
                    >= Len(ValidOf(out.odds)) * UnitOf(out.round_multiple)
        /\ ~TheoreticalSurebet(out.odds) => out.res.effective_total = 0
        /\ out.res.stakes # <<>> =>
              out.res.effective_total = StakeTotal(out.res.stakes)

\* stakes are returned, none was raised to the minimum, and their total
\* stays below a target that is no multiple of the unit
C24_Witness ==
    /\ pc = "done" /\ out.op = "compute_stakes"
    /\ out.res.stakes # <<>>
    /\ ~ForcedUp(out.odds, out.total_stake, out.round_multiple)
    /\ out.res.effective_total < out.total_stake
    /\ out.res.effective_total = StakeTotal(out.res.stakes)

\* stakes are returned whose total exceeds the target
C24_ExceedsTarget ==
    /\ pc = "done" /\ out.op = "compute_stakes"
    /\ out.res.stakes # <<>>
    /\ out.res.effective_total > out.total_stake

\* rounding removed the profit: no stakes and an effective total above 0
C24_DroppedAllocation ==
    /\ pc = "done" /\ out.op = "compute_stakes"
    /\ out.res.stakes = <<>>
    /\ out.res.effective_total > 0


-----------------------------------------------------------------------------
(* Properties of the greedy redistribution.                                *)

\* the allocation compute_stakes arrives at for a surebet in theory: the
\* floored stakes after the redistribution, as [stake, o, b] entries
ArrivedAt(odds, total_stake, round_multiple) ==
    LET valid == ValidOf(odds)
        rm == UnitOf(round_multiple)
        unrounded == Unrounded(valid, total_stake)
        floored == [i \in 1..Len(valid) |->
                       <<FloorStake(unrounded[i], rm), valid[i][1], valid[i][2]>>]
    IN  Distribute(floored, total_stake - SumSeq(Firsts(floored)), rm)

\* min(stake_i * odds_i) of an allocation, in hundredths
MinReturn(alloc) == MinOf([i \in 1..Len(alloc) |-> ReturnOf(alloc[i])])

\* the smallest positive multiple of rm whose return at the odd o (in
\* hundredths) is larger than m (in hundredths)
LeastStakeAbove(m, o, rm) == ((m \div (o * rm)) + 1) * rm

\* some allocation of positive multiples of rm with the given total returns
\* more than m on every outcome: the least stakes that do so fit into the
\* total (what is left of the total can be added to any of them)
Beats(alloc, total, m, rm) ==
    SumSeq([i \in 1..Len(alloc) |-> LeastStakeAbove(m, alloc[i][2], rm)]) <= total

\* C25: no allocation of positive multiples of round_multiple with the same
\* total has a larger min(stake_i * odds_i) than the allocation
\* compute_stakes arrives at, and compute_stakes returns an empty list for a
\* surebet in theory only when no such allocation has a positive guaranteed
\* profit.
C25_GreedyMaximisesMinimum ==
    (pc = "done" /\ out.op = "compute_stakes" /\ TheoreticalSurebet(out.odds)) =>
        LET alloc == ArrivedAt(out.odds, out.total_stake, out.round_multiple)
            total == StakeTotal(alloc)
            rm == UnitOf(out.round_multiple)
        IN  /\ ~Beats(alloc, total, MinReturn(alloc), rm)
            /\ out.res.stakes = <<>> => ~Beats(alloc, total, OddsScale * total, rm)

\* the first half alone: the allocation arrived at has the largest minimum
C25_LargestMinimum ==
    (pc = "done" /\ out.op = "compute_stakes" /\ TheoreticalSurebet(out.odds)) =>
        LET alloc == ArrivedAt(out.odds, out.total_stake, out.round_multiple)
        IN  ~Beats(alloc, StakeTotal(alloc), MinReturn(alloc),
                   UnitOf(out.round_multiple))

\* the second half alone: an empty list only when no allocation has a profit
C25_EmptyOnlyWithoutProfit ==
    (pc = "done" /\ out.op = "compute_stakes" /\ TheoreticalSurebet(out.odds)
        /\ out.res.stakes = <<>>) =>
        LET alloc == ArrivedAt(out.odds, out.total_stake, out.round_multiple)
        IN  ~Beats(alloc, StakeTotal(alloc), OddsScale * StakeTotal(alloc),
                   UnitOf(out.round_multiple))


-----------------------------------------------------------------------------
(* The outer loops of _parse_auto_snapshot_lines, _extract_matches_dom and *)
(* arbitrage_football's parse_file, one iteration at a time, and the inner *)
(* loop of _extract_matches_dom one pass at a time.  scan holds the page,   *)
(* the scan index i (1-based), the indices the outer loop has stood at, and *)
(* for the inner loop its index j, its pass counter, its variables and      *)
(* whether a break has left it.                                            *)

ScannedParsers ==
    {"_parse_auto_snapshot_lines", "_extract_matches_dom", "arbitrage_football_parse_file"}

\* the pages a scan is followed on
ScanPages(op) ==
    CASE op = "_parse_auto_snapshot_lines" -> SeparatorPages \cup SnapshotAnchorPages
      [] op = "_extract_matches_dom" -> TennisPages \cup DomWindowPages
      [] op = "arbitrage_football_parse_file" -> TopTiketPages \cup TopTiketAnchorPages

\* what the parser returns for the page
ParserResult(op, lines) ==
    CASE op = "_parse_auto_snapshot_lines" -> _parse_auto_snapshot_lines(lines)
      [] op = "_extract_matches_dom" -> _extract_matches_dom(lines)
      [] op = "arbitrage_football_parse_file" -> arbitrage_football_parse_file(lines)

\* _parse_auto_snapshot_lines: i after the iteration at i
SnapshotNext(lines, i) ==
    IF SnapshotHeader(lines, i)
    THEN LET stop == BlockEnd(lines, i + 3)
         IN  IF stop <= Len(lines) /\ StartsWithPlus(lines[stop]) THEN stop + 1 ELSE stop
    ELSE i + 1

\* arbitrage_football's parse_file: i after the iteration at i
TopTiketNext(lines, i) ==
    IF ~IsTimeAnchor(lines[i]) \/ i + 1 > Len(lines) THEN i + 1
    ELSE IF InvalidTeam(lines[i + 1]) THEN i + 1
    ELSE IF i + 2 > Len(lines) THEN i + 1
    ELSE IF InvalidTeam(lines[i + 2]) THEN i + 1
    ELSE LET c == CollectOdds(lines, i + 3, [odds |-> <<>>, from |-> <<>>, j |-> i + 3])
         IN  IF 5 <= Len(c.odds) /\ Len(c.odds) <= 7 THEN c.j ELSE i + 1

\* _extract_matches_dom: the token at i opens a match whose odds are read
DomHeader(tokens, i) ==
    /\ time_pat(tokens[i]) /\ i + 2 <= Len(tokens)
    /\ name_pat(tokens[i + 1]) /\ name_pat(tokens[i + 2])
    /\ tokens[i + 1].b # tokens[i + 2].b

\* "while j < n" alone, without the pass counter
InnerContinuesUncounted(tokens, j, safety) == j <= Len(tokens) /\ safety >= 0

\* "while j < n and safety < 50"
InnerContinues(tokens, j, safety) == j <= Len(tokens) /\ safety < SAFETY_LIMIT

\* one pass of the inner loop of _extract_matches_dom: the next j, the next
\* variables, and whether the pass left the loop with break
InnerPass(tokens, j, st) ==
    IF time_pat(tokens[j]) THEN [j |-> j, st |-> st, broke |-> TRUE]
    ELSE IF IsExpander(tokens[j]) THEN [j |-> j + 1, st |-> st, broke |-> TRUE]
    ELSE IF st.phase >= 3 THEN [j |-> j, st |-> st, broke |-> TRUE]
    ELSE LET r == DomStep(tokens, j, st, tokens[j], NumericOf(tokens[j]))
         IN  [j |-> r.j, st |-> r.st, broke |-> FALSE]

Scanning(op, lines, i, visited) ==
    [op |-> op, lines |-> lines, i |-> i, visited |-> visited, inner |-> FALSE,
     j |-> 0, safety |-> 0, st |-> DomStart, broke |-> FALSE]

\* the parser is called on a page: i = 0
ScanStart ==
    /\ pc = "idle"
    /\ \E op \in ScannedParsers :
          \E lines \in ScanPages(op) :
              scan' = Scanning(op, lines, 1, <<>>)
    /\ pc' = "scanning"
    /\ UNCHANGED <<out, BEST_AGGREGATE, runs, runner, multi, cache, tasks>>

\* one iteration of "while i < n"; in _extract_matches_dom an iteration that
\* finds a match opens the inner loop at j = i + 3
OuterStep ==
    /\ pc = "scanning" /\ ~scan.inner /\ scan.i <= Len(scan.lines)
    /\ scan' =
          CASE scan.op = "_parse_auto_snapshot_lines" ->
                  Scanning(scan.op, scan.lines, SnapshotNext(scan.lines, scan.i),
                           Append(scan.visited, scan.i))
            [] scan.op = "arbitrage_football_parse_file" ->
                  Scanning(scan.op, scan.lines, TopTiketNext(scan.lines, scan.i),
                           Append(scan.visited, scan.i))
            [] scan.op = "_extract_matches_dom" ->
                  IF DomHeader(scan.lines, scan.i)
                  THEN [scan EXCEPT !.inner = TRUE, !.j = scan.i + 3, !.safety = 0,
                                    !.st = DomStart]
                  ELSE Scanning(scan.op, scan.lines, scan.i + 1,
                                Append(scan.visited, scan.i))
    /\ UNCHANGED <<pc, out, BEST_AGGREGATE, runs, runner, multi, cache, tasks>>

\* one pass of the inner loop: safety += 1 and the loop body
InnerStep ==
    /\ pc = "scanning" /\ scan.inner /\ ~scan.broke
    /\ InnerContinues(scan.lines, scan.j, scan.safety)
    /\ LET r == InnerPass(scan.lines, scan.j, scan.st)
       IN  scan' = [scan EXCEPT !.j = r.j, !.safety = scan.safety + 1,
                                !.st = r.st, !.broke = r.broke]
    /\ UNCHANGED <<pc, out, BEST_AGGREGATE, runs, runner, multi, cache, tasks>>

\* behind the inner loop: with both match odds the record is appended and
\* i = j, otherwise i += 1
InnerEnd ==
    /\ pc = "scanning" /\ scan.inner
    /\ scan.broke \/ ~InnerContinues(scan.lines, scan.j, scan.safety)
    /\ scan' = Scanning(scan.op, scan.lines,
                        IF DomHas(scan.st, "Home") /\ DomHas(scan.st, "Away")
                        THEN scan.j ELSE scan.i + 1,
                        Append(scan.visited, scan.i))
    /\ UNCHANGED <<pc, out, BEST_AGGREGATE, runs, runner, multi, cache, tasks>>

\* i >= n: the loop is left and the matches are returned
ScanEnd ==
    /\ pc = "scanning" /\ ~scan.inner /\ scan.i > Len(scan.lines)
    /\ pc' = "scanned"
    /\ UNCHANGED <<out, BEST_AGGREGATE, runs, runner, stepwise>>

NextScan ==
    \/ ScanStart
    \/ OuterStep
    \/ InnerStep
    \/ InnerEnd
    \/ ScanEnd

\* the interpreter runs the next statement of the loop
SpecScan == Init /\ [][NextScan]_vars /\ WF_vars(NextScan)

-----------------------------------------------------------------------------
(* Properties of the scans.                                                *)

\* the iteration the step completes started at i and ended at i2
IterationDone == scan' # scan /\ pc' = "scanning" /\ pc = "scanning"
                 /\ Len(scan'.visited) = Len(scan.visited) + 1

\* a record of the parser starts at the line i
RecordAt(op, lines, i) ==
    \E n \in 1..Len(ParserResult(op, lines)) : ParserResult(op, lines)[n].first = i

\* the index moves forward by 1, or by at least 3; by at least 3 when the
\* iteration appended a match
IndexAdvances ==
    IterationDone =>
        /\ scan'.i = scan.i + 1 \/ scan'.i >= scan.i + 3
        /\ RecordAt(scan.op, scan.lines, scan.i) => scan'.i >= scan.i + 3

\* no step moves the index back
IndexNeverDecreases == pc = "scanning" /\ pc' = "scanning" => scan'.i >= scan.i

\* the inner loop has made at most 50 passes
InnerBounded == pc \in {"scanning", "scanned"} => scan.safety <= SAFETY_LIMIT

C26_StepsFollowParser ==
    pc = "scanned" =>
        \A n \in 1..Len(ParserResult(scan.op, scan.lines)) :
            \E k \in 1..Len(scan.visited) :
                /\ scan.visited[k] = ParserResult(scan.op, scan.lines)[n].first
                /\ ParserResult(scan.op, scan.lines)[n].last + 1
                      = (IF k < Len(scan.visited) THEN scan.visited[k + 1] ELSE scan.i)

-----------------------------------------------------------------------------
(* run_multi.py: main().  multi holds the parsed arguments, the results     *)
(* dictionary (key -> status), the keys whose script was started as a       *)
(* process, the threads of run_concurrently that have not finished, and the *)
(* place main() is at.                                                      *)

\* the keys of results, in the order main() fills them
MultiKeys == <<"tennis", "basketball", "football">>

\* what can happen in run_script: the file is missing, the process runs and
\* exits with 0 or with another code, or Popen raises
MultiOutcomes == {"missing", "ok", "nonzero", "popen_error"}

\* run_script(path, extra_args) of run_multi.py: the status of the result
\* and whether a process was started
multi_run_script(outcome) ==
    CASE outcome = "missing" -> [status |-> "skipped", started |-> FALSE]
      [] outcome = "ok" -> [status |-> "ok", started |-> TRUE]
      [] outcome = "nonzero" -> [status |-> "exit_1", started |-> TRUE]
      [] outcome = "popen_error" -> [status |-> "error", started |-> FALSE]

\* results[key] = run_script(...)
MultiRun(m, key, outcome) ==
    [m EXCEPT !.results = (key :> multi_run_script(outcome).status) @@ m.results,
              !.started = IF multi_run_script(outcome).started
                          THEN m.started \cup {key} ELSE m.started]

\* results[key] = {'name': ..., 'status': 'skipped', ...}
MultiSkip(m, key) == [m EXCEPT !.results = (key :> "skipped") @@ m.results]

\* args = ap.parse_args(); results = {}
MultiMain ==
    /\ pc = "idle"
    /\ \E sequential \in BOOLEAN, skip \in [{"tennis", "basketball", "football"} -> BOOLEAN] :
          multi' = [at |-> "parsed", sequential |-> sequential, skip |-> skip,
                    results |-> <<>>, started |-> {}, threads |-> {}, idx |-> 1]
    /\ pc' = "multi"
    /\ UNCHANGED <<out, BEST_AGGREGATE, runs, runner, scan, cache, tasks>>

\* "if args.sequential": one of the three if/else statements
MultiSequential ==
    /\ pc = "multi" /\ multi.at = "parsed" /\ multi.sequential
    /\ multi.idx <= Len(MultiKeys)
    /\ \E outcome \in MultiOutcomes :
          multi' = [(IF multi.skip[MultiKeys[multi.idx]]
                     THEN MultiSkip(multi, MultiKeys[multi.idx])
                     ELSE MultiRun(multi, MultiKeys[multi.idx], outcome))
                    EXCEPT !.idx = multi.idx + 1]
    /\ UNCHANGED <<pc, out, BEST_AGGREGATE, runs, runner, scan, cache, tasks>>

\* the sequential branch is through
MultiSequentialDone ==
    /\ pc = "multi" /\ multi.at = "parsed" /\ multi.sequential
    /\ multi.idx > Len(MultiKeys)
    /\ multi' = [multi EXCEPT !.at = "aggregate"]
    /\ UNCHANGED <<pc, out, BEST_AGGREGATE, runs, runner, scan, cache, tasks>>

\* "if args.skip_tennis and args.skip_basketball and args.skip_football":
\* a message is printed
MultiNothingToRun ==
    /\ pc = "multi" /\ multi.at = "parsed" /\ ~multi.sequential
    /\ multi.skip["tennis"] /\ multi.skip["basketball"] /\ multi.skip["football"]
    /\ multi' = [multi EXCEPT !.at = "aggregate"]
    /\ UNCHANGED <<pc, out, BEST_AGGREGATE, runs, runner, scan, cache, tasks>>

\* "if args.skip_tennis and args.skip_basketball and not args.skip_football"
MultiOnlyFootball ==
    /\ pc = "multi" /\ multi.at = "parsed" /\ ~multi.sequential
    /\ multi.skip["tennis"] /\ multi.skip["basketball"] /\ ~multi.skip["football"]
    /\ \E outcome \in MultiOutcomes :
          multi' = [MultiRun(MultiSkip(MultiSkip(multi, "tennis"), "basketball"),
                             "football", outcome)
                    EXCEPT !.at = "aggregate"]
    /\ UNCHANGED <<pc, out, BEST_AGGREGATE, runs, runner, scan, cache, tasks>>

\* run_concurrently: three threads are created and started
MultiStartThreads ==
    /\ pc = "multi" /\ multi.at = "parsed" /\ ~multi.sequential
    /\ ~(multi.skip["tennis"] /\ multi.skip["basketball"])
    /\ multi' = [multi EXCEPT !.at = "threads",
                              !.threads = {"tennis", "basketball", "football"}]
    /\ UNCHANGED <<pc, out, BEST_AGGREGATE, runs, runner, scan, cache, tasks>>

\* target(key, path, args) in one of the threads
MultiTarget ==
    /\ pc = "multi" /\ multi.at = "threads"
    /\ \E key \in multi.threads, outcome \in MultiOutcomes :
          multi' = [MultiRun(multi, key, outcome) EXCEPT !.threads = multi.threads \ {key}]
    /\ UNCHANGED <<pc, out, BEST_AGGREGATE, runs, runner, scan, cache, tasks>>

RECURSIVE MultiOverwrite(_, _)
\* the three "if args.skip_...: results[...] = {... 'skipped' ...}" after
\* run_concurrently, from the k-th on
MultiOverwrite(m, k) ==
    IF k > Len(MultiKeys) THEN m
    ELSE MultiOverwrite(IF m.skip[MultiKeys[k]] THEN MultiSkip(m, MultiKeys[k]) ELSE m, k + 1)

\* the threads are joined and the entries of the skipped scripts overwritten
MultiJoin ==
    /\ pc = "multi" /\ multi.at = "threads" /\ multi.threads = {}
    /\ multi' = [MultiOverwrite(multi, 1) EXCEPT !.at = "aggregate"]
    /\ UNCHANGED <<pc, out, BEST_AGGREGATE, runs, runner, scan, cache, tasks>>

\* the aggregate is printed or suppressed and main() returns
MultiReturn ==
    /\ pc = "multi" /\ multi.at = "aggregate"
    /\ pc' = "done"
    /\ out' = [op |-> "run_multi", results |-> multi.results]
    /\ UNCHANGED <<BEST_AGGREGATE, runs, runner, stepwise>>

NextMulti ==
    \/ MultiMain
    \/ MultiSequential
    \/ MultiSequentialDone
    \/ MultiNothingToRun
    \/ MultiOnlyFootball
    \/ MultiStartThreads
    \/ MultiTarget
    \/ MultiJoin
    \/ MultiReturn

SpecMulti == Init /\ [][NextMulti]_vars

-----------------------------------------------------------------------------
(* Properties of run_multi.                                                *)

\* the script of the key was given its skip flag
Skipped(key) == pc \in {"multi", "done"} /\ multi.skip[key]

\* C27: a script whose skip flag is given is never started as a process, in
\* sequential mode and in concurrent mode, and when main() returns its
\* entry of results has the status 'skipped'.
C27_SkippedNeverStarted ==
    \A key \in {"tennis", "basketball", "football"} :
        Skipped(key) =>
            /\ key \notin multi.started
            /\ pc = "done" =>
                  key \in DOMAIN multi.results /\ multi.results[key] = "skipped"

\* the same in sequential mode alone
C27_SequentialSkips ==
    \A key \in {"tennis", "basketball", "football"} :
        (Skipped(key) /\ multi.sequential) =>
            /\ key \notin multi.started
            /\ pc = "done" =>
                  key \in DOMAIN multi.results /\ multi.results[key] = "skipped"

\* in concurrent mode the entry of a skipped script is 'skipped' at the end
\* whenever at least one script is not skipped
C27_ConcurrentEntries ==
    \A key \in {"tennis", "basketball", "football"} :
        (Skipped(key) /\ ~multi.sequential /\ pc = "done"
            /\ \E other \in {"tennis", "basketball", "football"} : ~multi.skip[other]) =>
            key \in DOMAIN multi.results /\ multi.results[key] = "skipped"

\* a sequential run with a skipped script and a started one
C27_SequentialCase ==
    /\ pc = "done" /\ multi.sequential
    /\ multi.skip["tennis"] /\ "football" \in multi.started


-----------------------------------------------------------------------------
(* telegram_notifier.py: _chunk and send_long_message.  A text is the       *)
(* sequence of the lines that "\n" joins to it (at least one line); a line  *)
(* is its length and its number in the text.  A chunk is the sequence of    *)
(* lines that "\n".join made it from.                                       *)

MAX_MSG_LEN == 3900

\* the largest number of lines of a text
MaxLines == 3

\* lengths of lines: empty, short, half the limit, and around the limit
LineLens == {0, 1, 1949, 1950, 3899, 3900, 3901}

Texts ==
    UNION {{[k \in 1..n |-> [no |-> k, len |-> ls[k]]] : ls \in [1..n -> LineLens]} :
           n \in 1..MaxLines}

RECURSIVE LensOf(_)
LensOf(ls) == IF ls = <<>> THEN 0 ELSE Head(ls).len + LensOf(Tail(ls))

\* len("\n".join(ls))
JoinedLen(ls) == IF ls = <<>> THEN 0 ELSE LensOf(ls) + Len(ls) - 1

\* text.splitlines(): a line break at the end of the text opens no line
splitlines(text) ==
    IF text[Len(text)].len = 0 THEN SubSeq(text, 1, Len(text) - 1) ELSE text

RECURSIVE ChunkLoop(_, _, _, _, _)
\* the for loop of _chunk from the k-th line on, and the flush behind it
ChunkLoop(lines, k, chunks, current, current_len) ==
    IF k > Len(lines)
    THEN IF current # <<>> THEN Append(chunks, current) ELSE chunks
    ELSE IF current_len + (lines[k].len + 1) > MAX_MSG_LEN
         THEN ChunkLoop(lines, k + 1, Append(chunks, current), <<lines[k]>>,
                        lines[k].len + 1)
         ELSE ChunkLoop(lines, k + 1, chunks, Append(current, lines[k]),
                        current_len + (lines[k].len + 1))

\* _chunk(text)
_chunk(text) ==
    IF JoinedLen(text) <= MAX_MSG_LEN THEN <<text>>
    ELSE ChunkLoop(splitlines(text), 1, <<>>, <<>>, 0)

CallChunk ==
    /\ pc = "idle"
    /\ \E text \in Texts :
          Return([op |-> "_chunk", text |-> text, res |-> _chunk(text)])

\* send_long_message(text): the parts are sent in order until one fails;
\* broke is the number of the part whose send_raw_message returns False,
\* 0 when none does
CallSendLongMessage ==
    /\ pc = "idle"
    /\ \E text \in Texts :
          \E broke \in 0..Len(_chunk(text)) :
              Return([op |-> "send_long_message", text |-> text,
                      parts |-> _chunk(text),
                      sent |-> IF broke = 0 THEN Len(_chunk(text)) ELSE broke])

NextNotify ==
    \/ CallChunk
    \/ CallSendLongMessage

SpecNotify == Init /\ [][NextNotify]_vars

-----------------------------------------------------------------------------
(* Properties of _chunk.                                                   *)

Chunked == pc = "done" /\ out.op = "_chunk"

\* the text went through the for loop
Split == Chunked /\ JoinedLen(out.text) > MAX_MSG_LEN

\* C28: every chunk _chunk returns is at most MAX_MSG_LEN long, no chunk is
\* empty, and the chunks hold the lines of the text in their order, each
\* line once.
C28_ChunksFit ==
    Chunked =>
        /\ \A c \in 1..Len(out.res) :
              JoinedLen(out.res[c]) <= MAX_MSG_LEN /\ JoinedLen(out.res[c]) > 0
        /\ Concat(out.res) = IF Split THEN splitlines(out.text) ELSE out.text

\* the third part alone: no line is lost, doubled or moved
C28_LinesKept ==
    Chunked => Concat(out.res) = IF Split THEN splitlines(out.text) ELSE out.text

\* the first part for texts none of whose lines reaches the limit
C28_FitsWhenLinesFit ==
    (Chunked /\ \A k \in 1..Len(out.text) : out.text[k].len < MAX_MSG_LEN) =>
        \A c \in 1..Len(out.res) : JoinedLen(out.res[c]) <= MAX_MSG_LEN

\* a chunk longer than the limit: a single line is never cut
C28_NoLongChunk ==
    Chunked => \A c \in 1..Len(out.res) : JoinedLen(out.res[c]) <= MAX_MSG_LEN

\* an empty chunk is returned although every line of the text is shorter
\* than the limit
C28_NoEmptyChunkOfShortLines ==
    (Split /\ \A k \in 1..Len(out.text) : out.text[k].len < MAX_MSG_LEN) =>
        \A c \in 1..Len(out.res) : JoinedLen(out.res[c]) > 0

\* send_long_message sends a prefix of the chunks
C28_SendsInOrder ==
    (pc = "done" /\ out.op = "send_long_message") =>
        out.parts = _chunk(out.text) /\ out.sent \in 0..Len(out.parts)


-----------------------------------------------------------------------------
(* api/app.py: the refresh loop and POST /refresh on one event loop.  A     *)
(* coroutine runs without interruption from one await that suspends to the  *)
(* next, so one action is one such stretch.  cache is the module's          *)
(* dictionary; updated_at is "fresh" when set and "old" once more than      *)
(* REFRESH_INTERVAL_SEC have passed.  tasks holds the task of _refresh_loop *)
(* and one task per POST request; job is the call of capture_and_analyze    *)
(* the task handed to the executor.                                         *)

\* the largest number of POST /refresh requests
MaxRequests == 2

\* _should_refresh()
_should_refresh(c) ==
    \/ c.data = "None"
    \/ c.updated_at = "None"
    \/ c.updated_at = "old"

\* _run_refresh with the test of cache['refreshing'] left out
RunRefreshProceedsUnguarded(c, force) == force \/ _should_refresh(c)

\* _run_refresh(force) gets past its two early returns
RunRefreshProceeds(c, force) ==
    /\ ~c.refreshing
    /\ force \/ _should_refresh(c)

\* a task that entered the try block: refreshing is set, the call is handed
\* to the executor and the task waits for it
Submitted == [at |-> "awaiting", job |-> "running", turned |-> FALSE]

\* startup_event: the task of _refresh_loop is created; no request yet
Startup ==
    /\ pc = "idle"
    /\ pc' = "serving"
    /\ tasks' = [loop |-> [at |-> "sleeping", job |-> "none", turned |-> FALSE],
                 posts |-> [r \in 1..MaxRequests |->
                               [at |-> "new", job |-> "none", turned |-> FALSE]]]
    /\ UNCHANGED <<out, BEST_AGGREGATE, runs, runner, scan, multi, cache>>

\* more than REFRESH_INTERVAL_SEC pass since updated_at
IntervalPasses ==
    /\ pc = "serving"
    /\ cache.updated_at = "fresh"
    /\ cache' = [cache EXCEPT !.updated_at = "old"]
    /\ UNCHANGED <<pc, out, BEST_AGGREGATE, runs, runner, scan, multi, tasks>>

\* _refresh_loop wakes from its sleep: one pass of "while True" up to the
\* next await that suspends
RefreshLoop ==
    /\ pc = "serving"
    /\ tasks.loop.at = "sleeping"
    /\ IF _should_refresh(cache) /\ ~cache.refreshing /\ RunRefreshProceeds(cache, FALSE)
       THEN /\ cache' = [cache EXCEPT !.refreshing = TRUE]
            /\ tasks' = [tasks EXCEPT !.loop = Submitted]
       ELSE UNCHANGED <<cache, tasks>>
    /\ UNCHANGED <<pc, out, BEST_AGGREGATE, runs, runner, scan, multi>>

\* POST /refresh: force_refresh calls _run_refresh(force=True)
ForceRefresh ==
    /\ pc = "serving"
    /\ \E r \in 1..MaxRequests :
          /\ tasks.posts[r].at = "new"
          /\ IF RunRefreshProceeds(cache, TRUE)
             THEN /\ cache' = [cache EXCEPT !.refreshing = TRUE]
                  /\ tasks' = [tasks EXCEPT !.posts[r] = Submitted]
             ELSE /\ tasks' = [tasks EXCEPT !.posts[r] =
                                  [at |-> "responded", job |-> "none", turned |-> TRUE]]
                  /\ UNCHANGED cache
    /\ UNCHANGED <<pc, out, BEST_AGGREGATE, runs, runner, scan, multi>>

\* capture_and_analyze ends in the executor's thread: it returns a
\* dictionary, with or without 'error', or raises
ExecutorEnds ==
    /\ pc = "serving"
    /\ \E outcome \in {"returned", "returned_error", "raised"} :
          \/ /\ tasks.loop.job = "running"
             /\ tasks' = [tasks EXCEPT !.loop.job = outcome]
          \/ \E r \in 1..MaxRequests :
                /\ tasks.posts[r].job = "running"
                /\ tasks' = [tasks EXCEPT !.posts[r].job = outcome]
    /\ UNCHANGED <<pc, out, BEST_AGGREGATE, runs, runner, scan, multi, cache>>

\* the rest of the try block and the finally block, for the outcome of the
\* call
RefreshEnds(c, job) ==
    IF job = "raised" THEN [c EXCEPT !.refreshing = FALSE]
    ELSE [data |-> "dict", updated_at |-> "fresh", refreshing |-> FALSE,
          error |-> IF job = "returned_error" THEN "error" ELSE "None"]

\* the loop's task resumes behind the await: _run_refresh ends and the loop
\* sleeps again, or the exception ends the task
LoopResumes ==
    /\ pc = "serving"
    /\ tasks.loop.at = "awaiting" /\ tasks.loop.job # "running"
    /\ cache' = RefreshEnds(cache, tasks.loop.job)
    /\ tasks' = [tasks EXCEPT !.loop =
                    [at |-> IF tasks.loop.job = "raised" THEN "ended" ELSE "sleeping",
                     job |-> "none", turned |-> FALSE]]
    /\ UNCHANGED <<pc, out, BEST_AGGREGATE, runs, runner, scan, multi>>

\* a request's task resumes behind the await: 'triggered' is returned, or
\* the exception becomes the response
RequestResumes ==
    /\ pc = "serving"
    /\ \E r \in 1..MaxRequests :
          /\ tasks.posts[r].at = "awaiting" /\ tasks.posts[r].job # "running"
          /\ cache' = RefreshEnds(cache, tasks.posts[r].job)
          /\ tasks' = [tasks EXCEPT !.posts[r] =
                          [at |-> IF tasks.posts[r].job = "raised" THEN "failed"
                                  ELSE "responded",
                           job |-> "none", turned |-> FALSE]]
    /\ UNCHANGED <<pc, out, BEST_AGGREGATE, runs, runner, scan, multi>>

NextApi ==
    \/ Startup
    \/ IntervalPasses
    \/ RefreshLoop
    \/ ForceRefresh
    \/ ExecutorEnds
    \/ LoopResumes
    \/ RequestResumes

SpecApi == Init /\ [][NextApi]_vars

-----------------------------------------------------------------------------
(* Properties of the refresh.                                              *)

\* the tasks that are inside the try block of _run_refresh
InFlight ==
    (IF tasks.loop.at = "awaiting" THEN {0} ELSE {})
        \cup {r \in 1..MaxRequests : tasks.posts[r].at = "awaiting"}

\* the calls of capture_and_analyze that are with the executor
Jobs ==
    (IF tasks.loop.job # "none" THEN {0} ELSE {})
        \cup {r \in 1..MaxRequests : tasks.posts[r].job # "none"}

\* C29: at most one refresh is in flight at any time, whatever the order of
\* the refresh loop and the POST /refresh requests, and cache['refreshing']
\* is true exactly while one is in flight: it is false again once the
\* refresh has ended, by returning or by raising.
C29_SingleRefresh ==
    pc = "serving" =>
        /\ Cardinality(InFlight) <= 1
        /\ Jobs = InFlight
        /\ cache.refreshing <=> InFlight # {}

\* the step that ends a refresh clears the flag, whatever the outcome
C29_FlagCleared ==
    [][(pc = "serving" /\ InFlight # {} /\ InFlight' = {}) => ~cache'.refreshing]_vars

\* a request was turned away while the refresh of another request is in
\* flight, after a refresh that raised in the loop's task
C29_Witness ==
    /\ pc = "serving"
    /\ cache.refreshing
    /\ tasks.loop.at = "ended"
    /\ \E r, q \in 1..MaxRequests :
          tasks.posts[r].at = "awaiting" /\ tasks.posts[q].turned


-----------------------------------------------------------------------------
(* enhanced_handball_analyzer.py: parse_handball_flat.                     *)

\* "if 1.01 <= v <= 70" with no lower bound
HandballMoneylineUnbounded(v) == v <= 7000

\* "if 1.01 <= v <= 70" of the 1/X/2 odds, in hundredths
HandballMoneyline(v) == 101 <= v /\ v <= 7000

\* "1 <= hl <= 30 and 1.2 <= h1 <= 5 and 1.2 <= h2 <= 5"
HandballHandicap(c) ==
    /\ Len(c) >= 3
    /\ 100 <= c[1].v /\ c[1].v <= 3000
    /\ 120 <= c[2].v /\ c[2].v <= 500
    /\ 120 <= c[3].v /\ c[3].v <= 500

\* "30 <= tl <= 120 and 1.01 <= uo1 <= 5 and 1.01 <= uo2 <= 5"
HandballTotals(c) ==
    /\ Len(c) >= 3
    /\ 3000 <= c[1].v /\ c[1].v <= 12000
    /\ 101 <= c[2].v /\ c[2].v <= 500
    /\ 101 <= c[3].v /\ c[3].v <= 500

IsMoneyline(t) == pure_num_re(t) /\ HandballMoneyline(t.v)

RECURSIVE HandballBlockEnd(_, _)
\* "while i<n and not time_re.search(lines[i]) and not lines[i].startswith('+')"
HandballBlockEnd(lines, i) ==
    IF i > Len(lines) \/ dt_re(lines[i]) \/ StartsWithPlus(lines[i]) THEN i
    ELSE HandballBlockEnd(lines, i + 1)

RECURSIVE DropNumbers(_, _)
\* the tokens without their first k numbers
DropNumbers(tokens, k) ==
    IF tokens = <<>> \/ k = 0 THEN tokens
    ELSE IF pure_num_re(Head(tokens)) THEN DropNumbers(Tail(tokens), k - 1)
         ELSE <<Head(tokens)>> \o DropNumbers(Tail(tokens), k)

\* the tokens left for the totals, given those left behind the 1/X/2 odds
HandballRemaining(remaining) ==
    IF HandballHandicap(Take(SelectSeq(remaining, pure_num_re), 3))
    THEN DropNumbers(remaining, 3) ELSE remaining

\* odds_map of a block, from its three segments
HandballOddsMap(ml, hc, tc) ==
    (IF Len(ml) = 3
     THEN ("1" :> <<ml[1].v, "AUTO">>) @@ ("X" :> <<ml[2].v, "AUTO">>)
              @@ ("2" :> <<ml[3].v, "AUTO">>)
     ELSE <<>>)
    @@ (IF HandballHandicap(hc)
        THEN ("Handicap1" :> <<hc[2].v, "AUTO">>) @@ ("Handicap2" :> <<hc[3].v, "AUTO">>)
        ELSE <<>>)
    @@ (IF HandballTotals(tc)
        THEN ("Under" :> <<tc[2].v, "AUTO">>) @@ ("Over" :> <<tc[3].v, "AUTO">>)
        ELSE <<>>)

\* the block is parsed: ml are the 1/X/2 odds found in it
HandballBlock(block, ml) ==
    HandballOddsMap(ml,
        Take(SelectSeq(SubSeq(block, Len(ml) + 1, Len(block)), pure_num_re), 3),
        Take(SelectSeq(HandballRemaining(SubSeq(block, Len(ml) + 1, Len(block))),
                       pure_num_re), 3))

HandballOdds(block) == HandballBlock(block, Take(SelectSeq(block, IsMoneyline), 3))

HandballRecord(team1, team2, odds_map) ==
    IF Cardinality(DOMAIN odds_map) >= 2
    THEN <<[teams |-> <<team1, team2>>, odds |-> odds_map]>>
    ELSE <<>>

RECURSIVE HandballScan(_, _)
\* while i<n
HandballScan(lines, i) ==
    IF i > Len(lines) THEN <<>>
    ELSE IF dt_re(lines[i]) /\ i + 2 <= Len(lines)
    THEN HandballRecord(lines[i + 1], lines[i + 2],
             HandballOdds(SubSeq(lines, i + 3, HandballBlockEnd(lines, i + 3) - 1)))
         \o HandballScan(lines, HandballBlockEnd(lines, i + 3))
    ELSE HandballScan(lines, i + 1)

parse_handball_flat(lines) == HandballScan(lines, 1)

-----------------------------------------------------------------------------
(* The analyzers of the tennis, basketball and handball scripts.           *)

\* bounds of the filter of check_surebet, in hundredths: 1.01 <= o <= 69 in
\* the tennis script, 1.01 <= o <= 200 in the basketball and handball ones
SPORT_CHECK_MIN_ODDS == 101

TENNIS_CHECK_MAX_ODDS == 6900

BASKETBALL_CHECK_MAX_ODDS == 20000

\* check_surebet of the three scripts: margin % or None
sport_check_surebet(sport, odds) ==
    LET clean == SelectSeq(Firsts(odds),
                     LAMBDA o : /\ SPORT_CHECK_MIN_ODDS <= o
                                /\ o <= (IF sport = "tennis" THEN TENNIS_CHECK_MAX_ODDS
                                         ELSE BASKETBALL_CHECK_MAX_ODDS))
    IN  IF Len(clean) < 2 THEN None
        ELSE IF QLt(SumInv(clean), QInt(1))
             THEN Some(Round2(MarginPct(SumInv(clean))))
             ELSE None

\* compute_stakes of the three scripts: the handball script returns the
\* pair ([], 0) where the other two return the bare list []
sport_compute_stakes(sport, odds) ==
    IF sport = "handball" /\ tennis_compute_stakes(odds).shape = "list"
    THEN [shape |-> "pair", stakes |-> <<>>, profit |-> QInt(0)]
    ELSE tennis_compute_stakes(odds)

\* the groups of labels an analyzer looks at, in its order
SportGroups(sport) ==
    CASE sport = "tennis" -> <<<<"Home", "Away">>, <<"H1", "H2">>, <<"Under", "Over">>>>
      [] sport = "basketball" -> <<<<"1", "2">>, <<"Under", "Over">>>>
      [] sport = "handball" -> <<<<"1", "X", "2">>, <<"Under", "Over">>>>

\* [labels[x] for x in group]
GroupQuotes(m, group) == [k \in 1..Len(group) |-> m.odds[group[k]]]

\* "if all(x in labels for x in group)" and "if profit and profit >= min_profit"
Reported(sport, m, group, min_profit) ==
    /\ \A k \in 1..Len(group) : group[k] \in DOMAIN m.odds
    /\ sport_check_surebet(sport, GroupQuotes(m, group)).some
    /\ sport_check_surebet(sport, GroupQuotes(m, group)).v.n # 0
    /\ QLe(min_profit, sport_check_surebet(sport, GroupQuotes(m, group)).v)

\* the dictionary appended for a reported group
SurebetOf(sport, m, group) ==
    [match |-> m.teams, group |-> group,
     profit |-> sport_check_surebet(sport, GroupQuotes(m, group)).v,
     stakes |-> sport_compute_stakes(sport, GroupQuotes(m, group)).stakes,
     abs_profit |-> sport_compute_stakes(sport, GroupQuotes(m, group)).profit]

RECURSIVE AnalyzeFrom(_, _, _, _, _, _)
\* the loop over the matches from the k-th match and its g-th group on;
\* "stakes, abs_p = compute_stakes(...)" raises ValueError on a bare list
AnalyzeFrom(sport, matches, min_profit, k, g, surebets) ==
    IF k > Len(matches) THEN [raised |-> "none", surebets |-> surebets]
    ELSE IF g > Len(SportGroups(sport))
    THEN AnalyzeFrom(sport, matches, min_profit, k + 1, 1, surebets)
    ELSE IF ~Reported(sport, matches[k], SportGroups(sport)[g], min_profit)
    THEN AnalyzeFrom(sport, matches, min_profit, k, g + 1, surebets)
    ELSE IF sport_compute_stakes(sport, GroupQuotes(matches[k], SportGroups(sport)[g])).shape
                # "pair"
    THEN [raised |-> "ValueError", surebets |-> surebets]
    ELSE AnalyzeFrom(sport, matches, min_profit, k, g + 1,
                     Append(surebets, SurebetOf(sport, matches[k], SportGroups(sport)[g])))

analyze_tennis_surebets(matches, min_profit) ==
    AnalyzeFrom("tennis", matches, min_profit, 1, 1, <<>>)

analyze_basketball_surebets(matches, min_profit) ==
    AnalyzeFrom("basketball", matches, min_profit, 1, 1, <<>>)

analyze_handball_surebets(matches, min_profit) ==
    AnalyzeFrom("handball", matches, min_profit, 1, 1, <<>>)

\* the two odds of the first market: a surebet, none, one beyond 69, one
\* beyond 200, an inverse sum of exactly 1 and one just below 1
MoneyPairs ==
    {<<210, 210>>, <<150, 250>>, <<150, 15000>>, <<300, 20001>>, <<200, 200>>,
     <<101, 10101>>}

AnalysisHandicaps ==
    HandicapTokens \cup {<<NumLine(210), HalfLine(450), NumLine(215)>>}

AnalysisTotals ==
    TotalsTokens \cup {<<NumLine(205), HalfLine(2050), NumLine(205)>>}

\* pages of the tennis and the basketball script
PairPages ==
    {<<TimeLine, Alfa, Beta, NumLine(p[1]), NumLine(p[2])>> \o h \o t \o tail :
        p \in MoneyPairs, h \in AnalysisHandicaps, t \in AnalysisTotals,
        tail \in {<<>>, <<TimeLine, Gama, Delta, NumLine(210), NumLine(210)>>}}

\* the 1/X/2 tokens of a handball block
HandballMoneylines ==
    {<<NumLine(320), NumLine(330), NumLine(340)>>,
     <<NumLine(150), NumLine(400), NumLine(600)>>,
     <<NumLine(320), NumLine(330)>>,
     <<NumLine(100), NumLine(320), NumLine(330), NumLine(340)>>,
     <<NumLine(320), NumLine(7500), NumLine(330)>>,
     <<NumLine(250), Alfa, NumLine(900), NumLine(250)>>}

HandballPages ==
    {<<TimeLine, Alfa, Beta>> \o ml \o h \o t \o tail :
        ml \in HandballMoneylines,
        h \in {<<>>, <<HalfLine(450), NumLine(185), NumLine(195)>>},
        t \in {<<>>, <<HalfLine(6150), NumLine(210), NumLine(210)>>,
               <<HalfLine(6150), NumLine(180), NumLine(200)>>},
        tail \in {<<>>, <<PlusLine>>,
                  <<TimeLine, Gama, Delta, NumLine(320), NumLine(330), NumLine(340)>>}}

\* min_profit, in percent
AnalysisMinProfits == {QInt(0), QInt(5)}

CallAnalyzeTennis ==
    /\ pc = "idle"
    /\ \E lines \in PairPages, min_profit \in AnalysisMinProfits :
          Return([op |-> "analyze_tennis_surebets", sport |-> "tennis", lines |-> lines,
                  matches |-> parse_tennis_flat(lines), min_profit |-> min_profit,
                  res |-> analyze_tennis_surebets(parse_tennis_flat(lines), min_profit)])

CallAnalyzeBasketball ==
    /\ pc = "idle"
    /\ \E lines \in PairPages, min_profit \in AnalysisMinProfits :
          Return([op |-> "analyze_basketball_surebets", sport |-> "basketball", lines |-> lines,
                  matches |-> parse_basketball_flat(lines), min_profit |-> min_profit,
                  res |-> analyze_basketball_surebets(parse_basketball_flat(lines),
                                                      min_profit)])

CallAnalyzeHandball ==
    /\ pc = "idle"
    /\ \E lines \in HandballPages, min_profit \in AnalysisMinProfits :
          Return([op |-> "analyze_handball_surebets", sport |-> "handball", lines |-> lines,
                  matches |-> parse_handball_flat(lines), min_profit |-> min_profit,
                  res |-> analyze_handball_surebets(parse_handball_flat(lines),
                                                    min_profit)])

NextAnalyze ==
    \/ CallAnalyzeTennis
    \/ CallAnalyzeBasketball
    \/ CallAnalyzeHandball

SpecAnalyze == Init /\ [][NextAnalyze]_vars

-----------------------------------------------------------------------------
(* Properties of the analyzers.                                            *)

Analyzed ==
    /\ pc = "done"
    /\ out.op \in {"analyze_tennis_surebets", "analyze_basketball_surebets",
                   "analyze_handball_surebets"}

\* the groups of the parsed matches for which check_surebet returns a margin
Profitable ==
    {<<k, g>> \in (1..Len(out.matches)) \X (1..Len(SportGroups(out.sport))) :
        /\ \A x \in 1..Len(SportGroups(out.sport)[g]) :
              SportGroups(out.sport)[g][x] \in DOMAIN out.matches[k].odds
        /\ sport_check_surebet(out.sport,
               GroupQuotes(out.matches[k], SportGroups(out.sport)[g])).some}

\* C30: the analyzers of the tennis, basketball and handball scripts never
\* raise on the matches of their parser: for every group check_surebet
\* reports a margin for, compute_stakes returns the pair (stakes, profit)
\* with one stake per outcome of the group.
C30_AnalyzersNeverRaise ==
    Analyzed =>
        /\ out.res.raised = "none"
        /\ \A p \in Profitable :
              /\ sport_compute_stakes(out.sport,
                     GroupQuotes(out.matches[p[1]], SportGroups(out.sport)[p[2]])).shape
                    = "pair"
              /\ Len(sport_compute_stakes(out.sport,
                     GroupQuotes(out.matches[p[1]], SportGroups(out.sport)[p[2]])).stakes)
                    = Len(SportGroups(out.sport)[p[2]])
        /\ \A s \in 1..Len(out.res.surebets) :
              Len(out.res.surebets[s].stakes) = Len(out.res.surebets[s].group)

\* the tennis analyzer reported two groups of one match and a group of a
\* second one
C30_Witness ==
    /\ Analyzed /\ out.sport = "tennis"
    /\ Len(out.res.surebets) >= 3
    /\ Cardinality(Profitable) >= 3

\* the handball analyzer reported a 1X2 group with three stakes
C30_HandballCase ==
    /\ Analyzed /\ out.sport = "handball"
    /\ \E s \in 1..Len(out.res.surebets) : Len(out.res.surebets[s].stakes) = 3

\* a margin that rounds to 0.0 is not reported although check_surebet
\* returned it
C30_ZeroMarginCase ==
    /\ Analyzed /\ out.sport = "basketball"
    /\ Cardinality(Profitable) > Len(out.res.surebets)
    /\ out.min_profit = QInt(0)

=============================================================================
